---- MODULE Spec2Model ----
(***************************************************************************)
(* Model of the psychometric scoring service: the two evaluators           *)
(* (psychometric_evaluator.py, mentor_evaluator.py) and the generate and   *)
(* evaluate request handlers (psychometric_endpoints.py).                  *)
(*                                                                         *)
(* Numbers.  Option scores are integers 0..10.  A value rounded to two     *)
(* decimals is kept as an integer number of hundredths (567 is 5.67), a    *)
(* value rounded to one decimal as an integer number of tenths, and a      *)
(* registry weight as an integer number of tenths (13 is 1.3).  Python's   *)
(* round() is RoundDiv: the nearest integer to an exact quotient.  On an   *)
(* exact decimal tie RoundDiv goes to the even neighbour; CPython decides  *)
(* a tie by the binary double nearest to the quotient, so it can go either *)
(* way there.  Off the ties the two agree.                                 *)
(***************************************************************************)
EXTENDS Integers, Sequences, FiniteSets, TLC

VARIABLES
    user_type,        \* evaluator chosen for the evaluation: "entrepreneur" / "mentor"
    questions_data,   \* the assessment handed to evaluate_responses
    responses,        \* the response mapping, in insertion order
    clock,            \* datetime.now(), a counter
    runs,             \* the evaluations made of (questions_data, responses), oldest first
    store,            \* the database collections
    llm_calls,        \* prompts sent to the language model so far
    http,             \* the last request handled and the response sent for it
    pm,               \* the calls of the profile manager: finished and in flight
    singletons        \* the singleton instances and the threads asking for them

vars == <<user_type, questions_data, responses, clock, runs, store, llm_calls, http, pm,
         singletons>>

-----------------------------------------------------------------------------
(* Bounds *)

MaxQuestions == 3      \* questions in an assessment
MaxResponses == 3      \* entries in a response mapping
MaxThreads   == 3      \* request threads asking for a singleton
MaxCalls     == 6      \* calls of the profile manager in one behaviour
MaxRequests  == 2      \* HTTP requests handled in one behaviour

-----------------------------------------------------------------------------
(* Generic helpers *)

Range(s) == {s[i] : i \in 1..Len(s)}

Max(a, b) == IF a >= b THEN a ELSE b

RECURSIVE SumSeq(_)
SumSeq(s) == IF s = <<>> THEN 0 ELSE Head(s) + SumSeq(Tail(s))

\* dict.get(key, default) on a mapping kept as a function
Get(d, k, default) == IF k \in DOMAIN d THEN d[k] ELSE default

\* round(num / den): nearest integer, an exact tie to the even neighbour
RoundDiv(num, den) ==
    LET q == num \div den
        r == num % den
    IN  IF 2 * r > den THEN q + 1
        ELSE IF 2 * r < den THEN q
        ELSE IF q % 2 = 0 THEN q ELSE q + 1

-----------------------------------------------------------------------------
(* Dimension registries *)

\* PsychometricEvaluator.DIMENSIONS, in registration order
ENTREPRENEUR_DIMENSIONS ==
    << "leadership", "risk_tolerance", "resilience", "innovation",
       "decision_making", "emotional_intelligence", "persistence",
       "strategic_thinking", "communication", "problem_solving" >>

\* MentorEvaluator.DIMENSIONS, in registration order
MENTOR_DIMENSIONS ==
    << "coaching_ability", "domain_expertise", "empathy", "experience_breadth",
       "network_strength", "feedback_quality", "availability", "communication",
       "adaptability", "accountability" >>

\* MentorEvaluator.DIMENSIONS[dim]["weight"], in tenths
MENTOR_WEIGHT ==
    [d \in Range(MENTOR_DIMENSIONS) |->
        CASE d = "coaching_ability"   -> 12
          [] d = "domain_expertise"   -> 11
          [] d = "empathy"            -> 13
          [] d = "experience_breadth" -> 10
          [] d = "network_strength"   -> 9
          [] d = "feedback_quality"   -> 12
          [] d = "availability"       -> 10
          [] d = "communication"      -> 11
          [] d = "adaptability"       -> 10
          [] d = "accountability"     -> 10]

UserTypes == {"entrepreneur", "mentor"}

\* the registry of the evaluator that serves a user type
DIMENSIONS(ut) == IF ut = "mentor" THEN MENTOR_DIMENSIONS ELSE ENTREPRENEUR_DIMENSIONS

DimensionKeys(ut) == Range(DIMENSIONS(ut))

-----------------------------------------------------------------------------
(* Response scoring: the loop of evaluate_responses *)

\* question_map = {q["question_id"]: q for q in questions}: the last question
\* of an id wins
question_map(qd) ==
    LET qs  == qd.questions
        ids == {qs[i].question_id : i \in 1..Len(qs)}
    IN  [id \in ids |->
            qs[CHOOSE i \in 1..Len(qs) :
                  /\ qs[i].question_id = id
                  /\ \A j \in 1..Len(qs) : qs[j].question_id = id => j <= i]]

\* next((opt for opt in options if opt.option_id == selected), None): the
\* first option of that id; <<>> stands for None
selected_option(question, option_id) ==
    LET opts == question.options
        hits == {i \in 1..Len(opts) : opts[i].option_id = option_id}
    IN  IF hits = {} THEN <<>>
        ELSE <<opts[CHOOSE i \in hits : \A j \in hits : i <= j]>>

\* selected_option.get("score_profile", {}), a sequence of <<dimension, score>>
score_profile(opt) == IF opt.has_profile THEN opt.score_profile ELSE <<>>

\* for dimension, score in score_profile.items():
\*     if dimension in dimension_scores: dimension_scores[dimension].append(score)
RECURSIVE aggregate_scores(_, _)
aggregate_scores(dimension_scores, profile) ==
    IF profile = <<>> THEN dimension_scores
    ELSE LET dimension == Head(profile)[1]
             score     == Head(profile)[2]
             next      == IF dimension \in DOMAIN dimension_scores
                          THEN [dimension_scores EXCEPT
                                   ![dimension] = Append(@, score)]
                          ELSE dimension_scores
         IN  aggregate_scores(next, Tail(profile))

\* the loop recording the answer before it looks for the option
RECURSIVE score_responses_counting_unknown_option(_, _, _)
score_responses_counting_unknown_option(qmap, resp, acc) ==
    IF resp = <<>> THEN acc
    ELSE LET q_id == Head(resp).question_id
             sel  == Head(resp).option_id
         IN  IF q_id \notin DOMAIN qmap
             THEN score_responses_counting_unknown_option(qmap, Tail(resp), acc)
             ELSE LET found == selected_option(qmap[q_id], sel)
                      entry == [question_id     |-> q_id,
                                dimension       |-> qmap[q_id].dimension,
                                selected_option |-> sel,
                                selected_text   |-> IF found = <<>> THEN ""
                                                    ELSE found[1].text]
                  IN  score_responses_counting_unknown_option(qmap, Tail(resp),
                         [dimension_scores |->
                             IF found = <<>> THEN acc.dimension_scores
                             ELSE aggregate_scores(acc.dimension_scores,
                                                   score_profile(found[1])),
                          answered_questions |->
                             Append(acc.answered_questions, entry)])

\* for q_id, selected_option_id in responses.items(): ...
\* acc is [dimension_scores, answered_questions]
RECURSIVE score_responses(_, _, _)
score_responses(qmap, resp, acc) ==
    IF resp = <<>> THEN acc
    ELSE LET q_id == Head(resp).question_id
             sel  == Head(resp).option_id
         IN  IF q_id \notin DOMAIN qmap
             THEN score_responses(qmap, Tail(resp), acc)
             ELSE LET found == selected_option(qmap[q_id], sel)
                  IN  IF found = <<>>
                      THEN score_responses(qmap, Tail(resp), acc)
                      ELSE score_responses(qmap, Tail(resp),
                             [dimension_scores |->
                                 aggregate_scores(acc.dimension_scores,
                                                  score_profile(found[1])),
                              answered_questions |->
                                 Append(acc.answered_questions,
                                    [question_id     |-> q_id,
                                     dimension       |-> qmap[q_id].dimension,
                                     selected_option |-> sel,
                                     selected_text   |-> found[1].text])])

\* the raw score lists and the answered entries of an evaluation
collect(ut, qd, resp) ==
    score_responses(question_map(qd), resp,
        [dimension_scores   |-> [d \in DimensionKeys(ut) |-> <<>>],
         answered_questions |-> <<>>])

-----------------------------------------------------------------------------
(* Aggregation *)

\* the entrepreneur average replaced by the score of the last answer
entrepreneur_dimension_average_last(dimension, scores) ==
    IF scores # <<>> THEN scores[Len(scores)] * 100 ELSE 0

\* PsychometricEvaluator: round(sum(scores) / len(scores), 2) if scores else 0.0
entrepreneur_dimension_average(dimension, scores) ==
    IF scores # <<>> THEN RoundDiv(SumSeq(scores) * 100, Len(scores)) ELSE 0

\* the mentor average with the weight forgotten
mentor_dimension_average_unweighted(dimension, scores) ==
    IF scores # <<>> THEN RoundDiv(SumSeq(scores) * 100, Len(scores)) ELSE 0

\* MentorEvaluator: round(avg_score * weight, 2) if scores else 0.0
mentor_dimension_average(dimension, scores) ==
    IF scores # <<>>
    THEN RoundDiv(SumSeq(scores) * MENTOR_WEIGHT[dimension] * 10, Len(scores))
    ELSE 0

\* the averages with the dimensions nobody scored left out
dimension_averages_answered_only(ut, dimension_scores) ==
    [d \in {k \in DOMAIN dimension_scores : dimension_scores[k] # <<>>} |->
        IF ut = "mentor"
        THEN mentor_dimension_average(d, dimension_scores[d])
        ELSE entrepreneur_dimension_average(d, dimension_scores[d])]

\* dimension_averages: one entry for every key of dimension_scores
dimension_averages(ut, dimension_scores) ==
    [d \in DOMAIN dimension_scores |->
        IF ut = "mentor"
        THEN mentor_dimension_average(d, dimension_scores[d])
        ELSE entrepreneur_dimension_average(d, dimension_scores[d])]

\* sum(dimension_averages.values())
RECURSIVE SumValues(_, _)
SumValues(f, keys) ==
    IF keys = {} THEN 0
    ELSE LET k == CHOOSE x \in keys : TRUE
         IN  f[k] + SumValues(f, keys \ {k})

\* PsychometricEvaluator:
\* round(sum(dimension_averages.values()) / len(dimension_averages), 2)
\*     if dimension_averages else 0.0
entrepreneur_overall_score(averages) ==
    IF DOMAIN averages # {}
    THEN RoundDiv(SumValues(averages, DOMAIN averages),
                  Cardinality(DOMAIN averages))
    ELSE 0

\* the mentor overall score divided by the weights of the scored dimensions only
mentor_overall_score_scored_only(averages) ==
    LET scored       == {d \in DOMAIN averages : averages[d] > 0}
        total_weight == SumValues(MENTOR_WEIGHT, scored)
    IN  IF scored # {} /\ total_weight > 0
        THEN RoundDiv(SumValues(averages, DOMAIN averages) * 10, total_weight)
        ELSE 0

\* MentorEvaluator:
\* total_weight = sum(DIMENSIONS[dim]["weight"] for dim in dimension_averages)
\* round(sum(dimension_averages.values()) / total_weight, 2)
\*     if dimension_averages and total_weight > 0 else 0.0
mentor_overall_score(averages) ==
    LET total_weight == SumValues(MENTOR_WEIGHT, DOMAIN averages)
    IN  IF DOMAIN averages # {} /\ total_weight > 0
        THEN RoundDiv(SumValues(averages, DOMAIN averages) * 10, total_weight)
        ELSE 0

overall_score(ut, averages) ==
    IF ut = "mentor" THEN mentor_overall_score(averages)
    ELSE entrepreneur_overall_score(averages)

\* the completion rate cut off after one decimal instead of rounded
completion_rate_truncated(answered, total) == (answered * 1000) \div Max(total, 1)

\* round(len(answered_questions) / max(len(question_map), 1) * 100, 1), in tenths
completion_rate(answered, total) == RoundDiv(answered * 1000, Max(total, 1))

-----------------------------------------------------------------------------
(* The language model and the qualitative analysis *)

\* A summary string is kept as its fixed text and the number formatted into
\* it (0 when the text carries none).
Text(t, n) == [text |-> t, number |-> n]

\* @retry(stop=stop_after_attempt(3))
MAX_ATTEMPTS == 3

\* What the language model does for one prompt: it raises on the first
\* `fails` attempts and then answers `reply`.  A reply is the text left by
\* _clean_json_response: not JSON at all, JSON that is no object, or a JSON
\* object (its body a mapping).
ENTREPRENEUR_FULL_ANALYSIS ==
    [personality_profile   |-> Text("llm personality profile", 0),
     strengths             |-> <<"llm strength 1", "llm strength 2", "llm strength 3">>,
     areas_for_development |-> <<"llm development area 1", "llm development area 2">>,
     entrepreneurial_fit   |-> [overall_fit |-> "High", fit_score |-> 85,
                                reasoning |-> "llm reasoning",
                                ideal_role |-> "Founder",
                                ideal_venture_type |-> "Tech startup"],
     recommendations       |-> <<"llm recommendation 1", "llm recommendation 2">>,
     detailed_insights     |-> [leadership_style |-> "llm leadership style",
                                decision_making_pattern |-> "llm decision pattern"]]

MENTOR_FULL_ANALYSIS ==
    [mentor_profile_summary |-> Text("llm mentor summary", 0),
     strengths              |-> <<"llm strength 1", "llm strength 2", "llm strength 3">>,
     development_areas      |-> <<"llm development area 1", "llm development area 2">>,
     mentoring_fit          |-> [overall_fit |-> "Excellent", fit_score |-> 90,
                                 reasoning |-> "llm reasoning",
                                 mentoring_readiness |-> "Ready"],
     teaching_style         |-> "Socratic",
     ideal_mentee_profile   |-> [experience_level |-> "Early-stage",
                                 personality_fit |-> "llm personality fit",
                                 challenge_areas |-> "llm challenge areas",
                                 industry_fit |-> "llm industry fit"],
     mentoring_capacity     |-> "3-5",
     expertise_domains      |-> <<"FinTech", "EdTech">>,
     recommendations        |-> <<"llm recommendation 1", "llm recommendation 2">>,
     detailed_insights      |-> [communication_approach |-> "llm communication",
                                 feedback_style |-> "llm feedback style"]]

\* an object that lacks the required keys: accepted with a warning
PARTIAL_ANALYSIS == [recommendations |-> <<"llm recommendation 1">>]

AnalysisReplies(ut) ==
    {[kind |-> "not_json",   fenced |-> FALSE, body |-> <<>>],
     [kind |-> "not_object", fenced |-> FALSE, body |-> <<>>],
     [kind |-> "object",     fenced |-> FALSE, body |-> PARTIAL_ANALYSIS]}
    \cup {[kind |-> "object", fenced |-> b,
           body |-> IF ut = "mentor" THEN MENTOR_FULL_ANALYSIS
                    ELSE ENTREPRENEUR_FULL_ANALYSIS] : b \in BOOLEAN}

\* _clean_json_response followed by json.loads.  The entrepreneur evaluator
\* takes the text between ``` fences; the pattern of the mentor evaluator is
\* six backticks, which a fenced reply does not contain, so the mentor
\* evaluator parses the reply with its fences and json.loads raises.
parse_reply(ut, reply) ==
    IF reply.fenced /\ ut = "mentor" THEN "not_json" ELSE reply.kind

LLMBehaviours(replies) == [fails : {0, MAX_ATTEMPTS - 1, MAX_ATTEMPTS}, reply : replies]

\* _call_llm_with_retry: the reply of the first attempt that does not raise,
\* RetryError once stop_after_attempt(3) is reached
call_llm_with_retry(llm) ==
    IF llm.fails >= MAX_ATTEMPTS
    THEN [ok |-> FALSE, attempts |-> MAX_ATTEMPTS, value |-> <<>>]
    ELSE [ok |-> TRUE, attempts |-> llm.fails + 1, value |-> llm.reply]

\* the except branch of PsychometricEvaluator._generate_ai_analysis
entrepreneur_fallback_analysis(dimension_scores) ==
    [personality_profile   |->
        Text("Assessment indicates an overall score of {}/10. Further analysis recommended.",
             Get(dimension_scores, "overall_score", 0)),
     strengths             |-> <<"Assessment completed successfully">>,
     areas_for_development |-> <<"Review detailed scores for specific insights">>,
     entrepreneurial_fit   |->
        [overall_fit |-> "Medium", fit_score |-> 70,
         reasoning |-> "Assessment completed. Individual results vary by dimension.",
         ideal_role |-> "Entrepreneur",
         ideal_venture_type |-> "Versatile"],
     recommendations       |-> <<"Review dimension scores in detail",
                                 "Focus on top 2-3 development areas",
                                 "Consider coaching for targeted growth">>,
     detailed_insights     |-> [leadership_style |-> "Further analysis needed",
                                decision_making_pattern |-> "Review response patterns",
                                stress_response |-> "Self-assessment recommended",
                                growth_potential |-> "Moderate to high",
                                team_dynamics |-> "Context-dependent",
                                unique_qualities |-> "Individual strengths identified"]]

\* the except branch of MentorEvaluator._generate_mentor_analysis; its
\* overall_score is sum(dimension_scores.values()) / total_weight, printed
\* with two decimals
mentor_fallback_analysis(dimension_scores) ==
    [mentor_profile_summary |->
        Text("Mentor assessment indicates an overall score of {:.2f}/10. Further analysis recommended.",
             mentor_overall_score(dimension_scores)),
     strengths              |-> <<"Assessment completed successfully">>,
     development_areas      |-> <<"Review detailed scores for specific insights">>,
     mentoring_fit          |->
        [overall_fit |-> "Moderate", fit_score |-> 70,
         reasoning |-> "Assessment completed. Individual results vary by dimension.",
         mentoring_readiness |-> "Needs Development"],
     teaching_style         |-> "Mixed approach",
     ideal_mentee_profile   |-> [experience_level |-> "Various",
                                 personality_fit |-> "Flexible",
                                 challenge_areas |-> "General business challenges",
                                 industry_fit |-> "Cross-industry"],
     mentoring_capacity     |-> "3-5 mentees",
     expertise_domains      |-> <<"To be determined">>,
     recommendations        |-> <<"Review dimension scores in detail",
                                  "Clarify time commitment capacity",
                                  "Identify primary expertise domains">>,
     detailed_insights      |-> [communication_approach |-> "Further analysis needed",
                                 feedback_style |-> "Review response patterns",
                                 availability_pattern |-> "Self-assessment recommended",
                                 network_leverage |-> "Context-dependent",
                                 experience_depth |-> "Moderate",
                                 empathy_score |-> "Moderate to high",
                                 unique_value |-> "Individual strengths identified"]]

fallback_analysis(ut, dimension_scores) ==
    IF ut = "mentor" THEN mentor_fallback_analysis(dimension_scores)
    ELSE entrepreneur_fallback_analysis(dimension_scores)

\* the try block of _generate_ai_analysis / _generate_mentor_analysis fails
\* when the call raises (RetryError), json.loads raises (ValueError) or the
\* parsed value has no keys() (AttributeError)
analysis_failed(ut, llm) ==
    \/ ~call_llm_with_retry(llm).ok
    \/ parse_reply(ut, call_llm_with_retry(llm).value) # "object"

\* the analysis whose fallback quotes the exception in its reasoning
generate_analysis_quoting_error(ut, dimension_scores, llm) ==
    LET fit_key == IF ut = "mentor" THEN "mentoring_fit" ELSE "entrepreneurial_fit"
        message == IF ~call_llm_with_retry(llm).ok THEN "RetryError"
                   ELSE IF parse_reply(ut, call_llm_with_retry(llm).value) = "not_json"
                        THEN "ValueError: Invalid analysis JSON from LLM"
                        ELSE "AttributeError: object has no attribute 'keys'"
    IN  IF analysis_failed(ut, llm)
        THEN [fallback_analysis(ut, dimension_scores) EXCEPT
                 ![fit_key].reasoning = message]
        ELSE call_llm_with_retry(llm).value.body

\* the analysis that answers a failure with an empty mapping
generate_analysis_empty_on_failure(ut, dimension_scores, llm) ==
    IF analysis_failed(ut, llm) THEN <<>>
    ELSE call_llm_with_retry(llm).value.body

\* _generate_ai_analysis / _generate_mentor_analysis: the parsed object, or
\* the fallback from the except branch
generate_analysis(ut, dimension_scores, llm) ==
    IF analysis_failed(ut, llm)
    THEN fallback_analysis(ut, dimension_scores)
    ELSE call_llm_with_retry(llm).value.body

-----------------------------------------------------------------------------
(* evaluate_responses *)

Raise(e)  == [ok |-> FALSE, error |-> e]
Return(v) == [ok |-> TRUE, value |-> v]

\* PsychometricEvaluator.evaluate_responses, past the empty-responses check
entrepreneur_result(qd, resp, llm, now) ==
    LET scored   == collect("entrepreneur", qd, resp)
        averages == dimension_averages("entrepreneur", scored.dimension_scores)
        analysis == generate_analysis("entrepreneur", averages, llm)
        answered == scored.answered_questions
        total    == Cardinality(DOMAIN question_map(qd))
    IN  [assessment_id         |-> qd.assessment_id,
         evaluated_at          |-> now,
         total_questions       |-> total,
         questions_answered    |-> Len(answered),
         completion_rate       |-> completion_rate(Len(answered), total),
         dimension_scores      |-> averages,
         overall_score         |-> entrepreneur_overall_score(averages),
         strengths             |-> Get(analysis, "strengths", <<>>),
         areas_for_development |-> Get(analysis, "areas_for_development", <<>>),
         personality_profile   |-> Get(analysis, "personality_profile", Text("", 0)),
         entrepreneurial_fit   |-> Get(analysis, "entrepreneurial_fit", <<>>),
         recommendations       |-> Get(analysis, "recommendations", <<>>),
         detailed_insights     |-> Get(analysis, "detailed_insights", <<>>),
         response_details      |-> answered]

\* MentorEvaluator.evaluate_responses, past the empty-responses check
mentor_result(qd, resp, llm, now) ==
    LET scored   == collect("mentor", qd, resp)
        averages == dimension_averages("mentor", scored.dimension_scores)
        analysis == generate_analysis("mentor", averages, llm)
        answered == scored.answered_questions
        total    == Cardinality(DOMAIN question_map(qd))
    IN  [assessment_id          |-> qd.assessment_id,
         assessment_type        |-> "mentor",
         evaluated_at           |-> now,
         total_questions        |-> total,
         questions_answered     |-> Len(answered),
         completion_rate        |-> completion_rate(Len(answered), total),
         dimension_scores       |-> averages,
         overall_mentor_score   |-> mentor_overall_score(averages),
         mentor_strengths       |-> Get(analysis, "strengths", <<>>),
         development_areas      |-> Get(analysis, "development_areas", <<>>),
         mentor_profile_summary |-> Get(analysis, "mentor_profile_summary", Text("", 0)),
         mentoring_fit          |-> Get(analysis, "mentoring_fit", <<>>),
         teaching_style         |-> Get(analysis, "teaching_style", ""),
         ideal_mentee_profile   |-> Get(analysis, "ideal_mentee_profile", <<>>),
         mentoring_capacity     |-> Get(analysis, "mentoring_capacity", ""),
         expertise_domains      |-> Get(analysis, "expertise_domains", <<>>),
         recommendations        |-> Get(analysis, "recommendations", <<>>),
         detailed_insights      |-> Get(analysis, "detailed_insights", <<>>),
         response_details       |-> answered]

\* evaluate_responses of the evaluator serving `ut`:
\* if not responses: raise ValueError("No responses provided for evaluation")
evaluate_responses(ut, qd, resp, llm, now) ==
    IF resp = <<>>
    THEN Raise("ValueError: No responses provided for evaluation")
    ELSE IF ut = "mentor" THEN Return(mentor_result(qd, resp, llm, now))
    ELSE Return(entrepreneur_result(qd, resp, llm, now))

\* prompts an evaluation sends: one, for the analysis, unless it raised first
evaluation_prompts(resp) == IF resp = <<>> THEN 0 ELSE 1

\* evaluation_result.get('overall_score',
\*                       evaluation_result.get('overall_mentor_score'))
overall_of(result) ==
    IF "overall_score" \in DOMAIN result THEN result.overall_score
    ELSE result.overall_mentor_score

\* the fit mapping of a result, under the key of its evaluator
fit_of(result) ==
    IF "entrepreneurial_fit" \in DOMAIN result THEN result.entrepreneurial_fit
    ELSE result.mentoring_fit

\* the fields of a result that come from the analysis
qualitative_of(result) ==
    [k \in DOMAIN result \ {"assessment_id", "assessment_type", "evaluated_at",
                            "total_questions", "questions_answered",
                            "completion_rate", "dimension_scores",
                            "overall_score", "overall_mentor_score",
                            "response_details"} |-> result[k]]

-----------------------------------------------------------------------------
(* Inputs of the evaluation *)

Option(id, text, profile) ==
    [option_id |-> id, text |-> text, has_profile |-> TRUE, score_profile |-> profile]

\* an option that carries no score_profile key
BareOption(id, text) ==
    [option_id |-> id, text |-> text, has_profile |-> FALSE, score_profile |-> <<>>]

\* The questions an assessment is made of.  "charisma" is in neither
\* registry; q1 is the id of two questions; q2 has two options of id A and
\* none of id B; option B of q3 carries no score_profile.
Bank ==
    << [question_id |-> "q1", dimension |-> "leadership", options |->
          << Option("A", "q1 a", << <<"leadership", 8>>, <<"communication", 7>>,
                                    <<"empathy", 10>> >>),
             Option("B", "q1 b", << <<"leadership", 4>>, <<"network_strength", 1>> >>) >>],
      [question_id |-> "q2", dimension |-> "communication", options |->
          << Option("A", "q2 a", << <<"communication", 2>>, <<"empathy", 9>>,
                                    <<"leadership", 5>> >>),
             Option("A", "q2 a again", << <<"communication", 10>> >>) >>],
      [question_id |-> "q3", dimension |-> "empathy", options |->
          << Option("A", "q3 a", << <<"communication", 8>>, <<"charisma", 9>>,
                                    <<"network_strength", 2>>, <<"leadership", 4>> >>),
             BareOption("B", "q3 b") >>],
      [question_id |-> "q1", dimension |-> "risk_tolerance", options |->
          << Option("A", "q1 other a", << <<"risk_tolerance", 0>>, <<"empathy", 3>> >>) >>] >>

\* sequences without repetition over a set, up to a length
RECURSIVE SeqsOver(_, _)
SeqsOver(S, n) ==
    IF n = 0 THEN {<<>>}
    ELSE LET shorter == SeqsOver(S, n - 1)
         IN  shorter \cup {Append(s, x) : s \in shorter, x \in S}

\* the elements of s at the positions I, in the order of s
RECURSIVE Pick(_, _)
Pick(s, I) ==
    IF I = {} THEN <<>>
    ELSE LET last == CHOOSE i \in I : \A j \in I : j <= i
         IN  Append(Pick(s, I \ {last}), s[last])

\* an assessment holds up to MaxQuestions questions of the bank, in bank order
Assessments ==
    {[assessment_id |-> "assess_1", questions |-> Pick(Bank, I)] :
        I \in {J \in SUBSET (1..Len(Bank)) : Cardinality(J) <= MaxQuestions}}

\* an entry names an unknown question when the assessment lacks its
\* question, an unknown option when the question lacks the option
ResponseEntries == [question_id : {"q1", "q2", "q3"}, option_id : {"A", "B"}]

\* a mapping has one entry per key
ResponseSets ==
    {s \in SeqsOver(ResponseEntries, MaxResponses) :
        \A i, j \in 1..Len(s) : i # j => s[i].question_id # s[j].question_id}

-----------------------------------------------------------------------------
(* The evaluator, called repeatedly on one (assessment, responses) *)

\* None
None == "<none>"

\* The collections of the database before any request: two users with a
\* role, no assessment, evaluation or profile.  next_id numbers the _id of
\* the documents inserted.
InitialStore ==
    [users |-> [u \in {"u1", "u2"} |->
                  [role |-> IF u = "u1" THEN "mentor" ELSE "entrepreneur",
                   isPsychometricAnalysisDone |-> FALSE]],
     psychometric_assessments |-> <<>>,
     mentor_assessments       |-> <<>>,
     psychometric_evaluations |-> <<>>,
     mentor_evaluations       |-> <<>>,
     entrepreneur_profiles    |-> <<>>,
     mentor_profiles          |-> <<>>,
     next_id                  |-> 1]

\* no request handled yet
NoHttp == [n |-> 0]

\* the three singletons before their first use: _instance is None, nothing
\* was constructed, no thread has called
NoInstances ==
    [instance |-> [k \in {"PsychometricEvaluator", "MentorEvaluator", "UserProfileManager"}
                     |-> "<none>"],
     built    |-> [k \in {"PsychometricEvaluator", "MentorEvaluator", "UserProfileManager"}
                     |-> 0],
     threads  |-> <<>>]

\* no call of the profile manager yet
NoCalls ==
    [n |-> 0, last |-> [op |-> "none"], written |-> 0, appended |-> <<>>,
     pending |-> <<>>]

Init ==
    /\ user_type \in UserTypes
    /\ questions_data \in Assessments
    /\ responses \in ResponseSets
    /\ clock = 0
    /\ runs = <<>>
    /\ store = InitialStore
    /\ llm_calls = 0
    /\ http = NoHttp
    /\ pm = NoCalls
    /\ singletons = NoInstances

\* one call of evaluate_responses, the first or the second on these inputs;
\* the language model behaves as `llm`
Evaluate(llm) ==
    /\ Len(runs) < 2
    /\ runs' = Append(runs,
                 [llm_failed |-> responses # <<>> /\ analysis_failed(user_type, llm),
                  outcome    |-> evaluate_responses(user_type, questions_data,
                                                    responses, llm, clock)])
    /\ clock' = clock + 1
    /\ llm_calls' = llm_calls + evaluation_prompts(responses)
    /\ UNCHANGED <<singletons, user_type, questions_data, responses, store, http, pm>>

Next == \E llm \in LLMBehaviours(AnalysisReplies(user_type)) : Evaluate(llm)

Spec == Init /\ [][Next]_vars

-----------------------------------------------------------------------------
(* Vocabulary of the properties, stated on the inputs without the scorer *)

\* the evaluations that returned
Returned == {i \in 1..Len(runs) : runs[i].outcome.ok}

ResultOf(i) == runs[i].outcome.value

\* the question an id refers to: positions of the id, the last one counting
PositionsOf(q_id) ==
    {j \in 1..Len(questions_data.questions) :
        questions_data.questions[j].question_id = q_id}

QuestionOf(q_id) ==
    questions_data.questions[CHOOSE j \in PositionsOf(q_id) :
                                \A k \in PositionsOf(q_id) : k <= j]

\* response entry i names a question of the assessment and one of its options
Matches(i) ==
    /\ PositionsOf(responses[i].question_id) # {}
    /\ \E k \in 1..Len(QuestionOf(responses[i].question_id).options) :
          QuestionOf(responses[i].question_id).options[k].option_id
              = responses[i].option_id

MatchedEntries == {i \in 1..Len(responses) : Matches(i)}

\* the score-profile chosen by a matching entry
ProfileOf(i) ==
    LET opts == QuestionOf(responses[i].question_id).options
        k    == CHOOSE k \in 1..Len(opts) :
                   /\ opts[k].option_id = responses[i].option_id
                   /\ \A m \in 1..(k - 1) : opts[m].option_id # responses[i].option_id
    IN  IF opts[k].has_profile THEN opts[k].score_profile ELSE <<>>

\* the raw scores of a dimension, each named by <<entry, position in profile>>
Contributions(d) ==
    UNION {{<<i, k>> : k \in {m \in 1..Len(ProfileOf(i)) : ProfileOf(i)[m][1] = d}} :
              i \in MatchedEntries}

RECURSIVE SumOfScores(_)
SumOfScores(S) ==
    IF S = {} THEN 0
    ELSE LET c == CHOOSE x \in S : TRUE
         IN  ProfileOf(c[1])[c[2]][2] + SumOfScores(S \ {c})

\* registry weight of a dimension in tenths; 1.0 for every entrepreneur dimension
WeightOf(d) == IF user_type = "mentor" THEN MENTOR_WEIGHT[d] ELSE 10

RECURSIVE SumOfWeights(_)
SumOfWeights(D) ==
    IF D = {} THEN 0
    ELSE LET d == CHOOSE x \in D : TRUE IN WeightOf(d) + SumOfWeights(D \ {d})

RECURSIVE SumOfDimensionScores(_, _)
SumOfDimensionScores(scores, D) ==
    IF D = {} THEN 0
    ELSE LET d == CHOOSE x \in D : TRUE
         IN  scores[d] + SumOfDimensionScores(scores, D \ {d})

-----------------------------------------------------------------------------
(* C1 *)

\* C1: every dimension score returned by evaluate_responses is
\* round(mean(raw scores of the dimension) * weight, 2) when a selected option
\* contributed a score to the dimension, and 0.0 otherwise (weight 1.0 for the
\* entrepreneur registry, the registry weight for the mentor registry).
C1_DimensionScoreIsWeightedMean ==
    \A d \in DimensionKeys(user_type) :
        LET raw      == Contributions(d)
            expected == IF raw # {}
                        THEN RoundDiv(SumOfScores(raw) * WeightOf(d) * 10,
                                      Cardinality(raw))
                        ELSE 0
        IN  \A i \in Returned : ResultOf(i).dimension_scores[d] = expected

\* a mentor evaluation in which three options scored "communication" (mean
\* 17/3, weight 1.1) and no option scored "coaching_ability"
C1_Witness ==
    /\ user_type = "mentor"
    /\ Returned # {}
    /\ Cardinality(Contributions("communication")) = 3
    /\ Contributions("coaching_ability") = {}
    /\ \E i \in Returned : /\ ResultOf(i).dimension_scores["communication"] = 623
                           /\ ResultOf(i).dimension_scores["coaching_ability"] = 0

-----------------------------------------------------------------------------
(* C2 *)

\* C2: the overall score is the sum of the dimension scores divided by the
\* sum of the weights of every dimension of the registry, answered or not,
\* rounded to 2 decimals; 0.0 when the registry is empty or the weights sum
\* to zero.
C2_OverallIsSumOverAllWeights ==
    \A i \in Returned :
        LET D == DimensionKeys(user_type)
            W == SumOfWeights(D)
            S == SumOfDimensionScores(ResultOf(i).dimension_scores, D)
        IN  overall_of(ResultOf(i)) =
                IF D # {} /\ W > 0 THEN RoundDiv(S * 10, W) ELSE 0

\* a mentor evaluation with a positive overall score and unanswered dimensions
C2_Witness ==
    /\ user_type = "mentor"
    /\ \E i \in Returned :
          /\ overall_of(ResultOf(i)) > 0
          /\ \E d \in DimensionKeys("mentor") :
                ResultOf(i).dimension_scores[d] = 0
          /\ \E d \in DimensionKeys("mentor") :
                ResultOf(i).dimension_scores[d] > 0

-----------------------------------------------------------------------------
(* C3 *)

\* the matching response entries, in the order supplied
MatchedResponses == Pick(responses, MatchedEntries)

\* the <<question, option>> pairs of an answered list
AnsweredPairs(details) ==
    [k \in 1..Len(details) |->
        [question_id |-> details[k].question_id,
         option_id   |-> details[k].selected_option]]

\* C3: a response naming an unknown question or an unknown option is skipped
\* without raising: it adds no score and no answered entry, and
\* questions_answered is the number of entries whose question and option
\* both match, score-profile or not.
C3_UnmatchedResponsesAreSkipped ==
    /\ responses # <<>> => Returned = 1..Len(runs)
    /\ \A i \in Returned :
          /\ ResultOf(i).questions_answered = Cardinality(MatchedEntries)
          /\ AnsweredPairs(ResultOf(i).response_details) = MatchedResponses
          /\ ResultOf(i).dimension_scores =
                dimension_averages(user_type,
                    collect(user_type, questions_data, MatchedResponses).dimension_scores)

\* an evaluation of three entries: an unknown question, an unknown option of
\* a known question, and a matched option without score-profile
C3_Witness ==
    /\ Returned # {}
    /\ \E i, j, k \in 1..Len(responses) :
          /\ PositionsOf(responses[i].question_id) = {}
          /\ PositionsOf(responses[j].question_id) # {} /\ ~Matches(j)
          /\ Matches(k) /\ ProfileOf(k) = <<>>
    /\ \A r \in Returned : ResultOf(r).questions_answered = 1

-----------------------------------------------------------------------------
(* C4 *)

\* the assessment with the keys outside the registry removed from every
\* score-profile
WithoutUnknownKeys ==
    LET Known(pair) == pair[1] \in DimensionKeys(user_type)
        qs == questions_data.questions
    IN  [questions_data EXCEPT !.questions =
            [j \in 1..Len(qs) |->
                [qs[j] EXCEPT !.options =
                    [k \in 1..Len(qs[j].options) |->
                        [qs[j].options[k] EXCEPT !.score_profile =
                            SelectSeq(@, Known)]]]]]

\* some selected option scores a key that is in no registry entry
SelectsUnknownKey ==
    \E i \in MatchedEntries : \E k \in 1..Len(ProfileOf(i)) :
        ProfileOf(i)[k][1] \notin DimensionKeys(user_type)

\* C4: dimension_scores has exactly the registry's keys: a score-profile key
\* outside the registry adds no key and changes no score, and a dimension no
\* selected option mentions is present with 0.0.
C4_DimensionScoresHaveRegistryKeys ==
    \A i \in Returned :
        /\ DOMAIN ResultOf(i).dimension_scores = DimensionKeys(user_type)
        /\ \A d \in DimensionKeys(user_type) :
              Contributions(d) = {} =>
                  /\ d \in DOMAIN ResultOf(i).dimension_scores
                  /\ ResultOf(i).dimension_scores[d] = 0
        /\ ResultOf(i).dimension_scores =
              dimension_averages(user_type,
                  collect(user_type, WithoutUnknownKeys, responses).dimension_scores)

\* an evaluation whose selected options score a key outside the registry
\* and leave a registry dimension unmentioned
C4_Witness ==
    /\ Returned # {}
    /\ SelectsUnknownKey
    /\ \E d \in DimensionKeys(user_type) : Contributions(d) = {}
    /\ \E d \in DimensionKeys(user_type) : Contributions(d) # {}

-----------------------------------------------------------------------------
(* C5 *)

\* the number of questions of the assessment (question ids are unique within
\* an assessment; a repeated id is one question)
NumberOfQuestions ==
    Cardinality({questions_data.questions[j].question_id :
                    j \in 1..Len(questions_data.questions)})

\* C5: completion_rate lies in [0, 100] and is
\* questions_answered / max(total_questions, 1) * 100 rounded to 1 decimal;
\* an assessment without questions yields 0.0 and no division by zero.
C5_CompletionRate ==
    /\ responses # <<>> => Returned = 1..Len(runs)
    /\ \A i \in Returned :
          LET r == ResultOf(i)
          IN  /\ r.total_questions = NumberOfQuestions
              /\ r.completion_rate \in 0..1000
              /\ r.completion_rate =
                    RoundDiv(r.questions_answered * 1000, Max(NumberOfQuestions, 1))
              /\ NumberOfQuestions = 0 => r.completion_rate = 0

\* two of three questions validly answered: 66.7
C5_Witness ==
    /\ NumberOfQuestions = 3
    /\ \E i \in Returned : /\ ResultOf(i).questions_answered = 2
                           /\ ResultOf(i).completion_rate = 667

\* an evaluation of an assessment without questions
C5_WitnessNoQuestions ==
    /\ NumberOfQuestions = 0
    /\ \E i \in Returned : ResultOf(i).completion_rate = 0

-----------------------------------------------------------------------------
(* C6 *)

\* the orderings of the response mapping
Orderings ==
    {[k \in 1..Len(responses) |-> responses[f[k]]] :
        f \in Permutations(1..Len(responses))}

WorkingLLM ==
    [fails |-> 0,
     reply |-> [kind |-> "object", fenced |-> FALSE,
                body |-> IF user_type = "mentor" THEN MENTOR_FULL_ANALYSIS
                         ELSE ENTREPRENEUR_FULL_ANALYSIS]]

\* C6: for a fixed assessment, dimension_scores and the overall score are the
\* same for every ordering of the same response entries.
C6_OrderOfResponsesIsIrrelevant ==
    \A i \in Returned : \A p \in Orderings :
        LET other == evaluate_responses(user_type, questions_data, p, WorkingLLM, 0)
        IN  /\ other.ok
            /\ other.value.dimension_scores = ResultOf(i).dimension_scores
            /\ overall_of(other.value) = overall_of(ResultOf(i))

\* three answers that score "leadership" 8, 5 and 4
C6_Witness ==
    /\ Returned # {}
    /\ Len(responses) = 3
    /\ Cardinality(Contributions("leadership")) = 3
    /\ user_type = "entrepreneur"
    /\ \A i \in Returned : ResultOf(i).dimension_scores["leadership"] = 567

-----------------------------------------------------------------------------
(* C7 *)

\* C7: two evaluations of the same (assessment, responses) return the same
\* dimension_scores and overall score whatever the analyzer returns, and the
\* same qualitative fields when the analyzer fails in both.
C7_EvaluationIsRepeatable ==
    Len(runs) = 2 =>
        /\ runs[1].outcome.ok = runs[2].outcome.ok
        /\ runs[1].outcome.ok =>
              /\ ResultOf(1).dimension_scores = ResultOf(2).dimension_scores
              /\ overall_of(ResultOf(1)) = overall_of(ResultOf(2))
              /\ runs[1].llm_failed /\ runs[2].llm_failed =>
                    qualitative_of(ResultOf(1)) = qualitative_of(ResultOf(2))

\* two evaluations with scores, the analyzer failing in both
C7_Witness ==
    /\ Len(runs) = 2
    /\ Returned = {1, 2}
    /\ runs[1].llm_failed /\ runs[2].llm_failed
    /\ overall_of(ResultOf(1)) > 0

\* two evaluations, the analyzer failing in one and answering in the other
C7_WitnessMixed ==
    /\ Len(runs) = 2
    /\ Returned = {1, 2}
    /\ runs[1].llm_failed /\ ~runs[2].llm_failed
    /\ overall_of(ResultOf(1)) > 0

-----------------------------------------------------------------------------
(* C10 *)

strengths_of(result) ==
    IF "mentor_strengths" \in DOMAIN result THEN result.mentor_strengths
    ELSE result.strengths

\* an evaluation whose analyzer failed returned, with the scores a working
\* analyzer gives and the placeholder strengths, fit score and recommendations
FallbackEvaluation(i) ==
    LET working == evaluate_responses(user_type, questions_data, responses,
                                      WorkingLLM, 0)
    IN  /\ runs[i].outcome.ok
        /\ working.ok
        /\ ResultOf(i).dimension_scores = working.value.dimension_scores
        /\ overall_of(ResultOf(i)) = overall_of(working.value)
        /\ strengths_of(ResultOf(i)) = <<"Assessment completed successfully">>
        /\ Get(fit_of(ResultOf(i)), "fit_score", 0) = 70
        /\ Len(ResultOf(i).recommendations) = 3
        /\ ResultOf(i).recommendations[1] = "Review dimension scores in detail"

-----------------------------------------------------------------------------
(* Requests *)

\* a field the request body does not carry
Absent == "<absent>"

\* a field whose JSON value is a number
Number == "<number>"

\* str.strip().lower()
StripLower(str) ==
    CASE str = " Mentor " -> "mentor"
      [] str = "Entrepreneur" -> "entrepreneur"
      [] OTHER -> str

ROLE_FIELDS == <<"user_type", "user_role", "role", "assessment_type">>

MENTOR_ROLES == {"mentor", "internal_mentor"}

\* the role fields of a request body that carries `a` as user_type and `b`
\* as role
Roles(a, b) ==
    [user_type |-> a, user_role |-> Absent, role |-> b, assessment_type |-> Absent]

\* Who sends a request: the user_id and the role fields of its body.  u1 is
\* a mentor in the database, u2 an entrepreneur.
Callers ==
    {[user_id |-> Absent, roles |-> Roles(Absent, Absent)],
     [user_id |-> "u1",   roles |-> Roles(Absent, Absent)],
     [user_id |-> "u2",   roles |-> Roles(Absent, Absent)],
     [user_id |-> "u2",   roles |-> Roles(Absent, " Mentor ")],
     [user_id |-> "u1",   roles |-> Roles("Entrepreneur", Absent)],
     [user_id |-> Absent, roles |-> Roles(Number, Absent)]}

Anonymous == [user_id |-> Absent, roles |-> Roles(Absent, Absent)]

\* ObjectId(user_id) raises InvalidId unless the string is a 24-digit hex id
valid_object_id(user_id) == user_id \in {"u1", "u2"}

\* data.get(field, '').strip().lower() if data.get(field) else ''
\* a number is truthy and has no strip()
role_field(data, field) ==
    IF data[field] = Absent \/ data[field] = "" THEN Return("")
    ELSE IF data[field] = Number
         THEN Raise("AttributeError: 'int' object has no attribute 'strip'")
         ELSE Return(StripLower(data[field]))

\* the database lookup of _determine_user_type, inside its try block:
\* whatever raises there is logged and the default follows
role_from_database(st, user_id, fault) ==
    LET Found(role, log) == [ok |-> TRUE, value |-> role, log |-> log]
    IN  IF user_id = None \/ user_id = "" THEN Found("entrepreneur", {})
        ELSE IF fault = "connect" THEN Found("entrepreneur", {"connect failed"})
        ELSE IF ~valid_object_id(user_id) THEN Found("entrepreneur", {"InvalidId"})
        ELSE IF fault = "find_user" THEN Found("entrepreneur", {"find_user failed"})
        ELSE IF user_id \notin DOMAIN st.users THEN Found("entrepreneur", {})
        ELSE IF StripLower(st.users[user_id].role) \in MENTOR_ROLES
             THEN Found("mentor", {})
             ELSE Found("entrepreneur", {})

\* _determine_user_type: the four request fields in order, then the database
RECURSIVE determine_from(_, _, _, _, _)
determine_from(fields, st, data, user_id, fault) ==
    IF fields = <<>> THEN role_from_database(st, user_id, fault)
    ELSE LET r == role_field(data, Head(fields))
         IN  IF ~r.ok THEN r
             ELSE IF r.value \in MENTOR_ROLES
                  THEN [ok |-> TRUE, value |-> "mentor", log |-> {}]
             ELSE determine_from(Tail(fields), st, data, user_id, fault)

determine_user_type(st, data, user_id, fault) ==
    determine_from(ROLE_FIELDS, st, data, user_id, fault)

\* the points of one request at which the database can fail: "connect" makes
\* get_database_manager() raise, the others make one operation raise
Faults ==
    {"none", "connect", "find_user", "insert_assessment", "insert_evaluation",
     "update_assessment", "update_user", "find_profile", "write_profile"}

\* the response of a handler whose writes are not wrapped in a try block of
\* their own: a write that fails after another has been done ends the
\* request with status 500
Response_uncaught(status, body, st, prompts, log) ==
    LET uncaught == log \cap {"update_assessment failed", "update_user failed",
                              "write_profile failed"} # {}
    IN  [status  |-> IF uncaught THEN 500 ELSE status,
         body    |-> IF uncaught THEN [error |-> "Failed to evaluate responses"] ELSE body,
         store   |-> st, prompts |-> prompts, log |-> log]

\* what a handler leaves behind: the HTTP status and body, the database, the
\* number of prompts sent to the language model and the failures it logged
Response(status, body, st, prompts, log) ==
    [status |-> status, body |-> body, store |-> st, prompts |-> prompts, log |-> log]

\* str(result.inserted_id) of the n-th document inserted
ObjectIdOf(n) == "id" \o ToString(n)

\* the first document of a collection that a filter matches, updated
update_one(docs, Matches_(_), Update_(_)) ==
    LET hits == {i \in 1..Len(docs) : Matches_(docs[i])}
    IN  IF hits = {} THEN docs
        ELSE LET first == CHOOSE i \in hits : \A j \in hits : i <= j
             IN  [docs EXCEPT ![first] = Update_(docs[first])]

-----------------------------------------------------------------------------
(* POST /api/psychometric/generate *)

MIN_QUESTIONS == 5
MAX_QUESTIONS == 50
DEFAULT_QUESTIONS == 20

\* values of num_questions: an int, a bool (an int in Python: True is 1), a
\* string, a float, or absent
NumQuestionsValues ==
    {[kind |-> "absent", n |-> 0], [kind |-> "str", n |-> 20],
     [kind |-> "float", n |-> 20], [kind |-> "bool", n |-> 1]}
    \cup {[kind |-> "int", n |-> n] : n \in {4, 5, 50, 51}}

\* data.get('num_questions', 20)
num_questions_of(v) == IF v.kind = "absent" THEN [kind |-> "int", n |-> DEFAULT_QUESTIONS] ELSE v

\* not isinstance(num_questions, int) or num_questions < 5 or num_questions > 50
invalid_num_questions(v) ==
    \/ v.kind \notin {"int", "bool"}
    \/ v.n < MIN_QUESTIONS
    \/ v.n > MAX_QUESTIONS

\* replies of the language model to the generation prompt
GENERATED_ASSESSMENT ==
    [assessment_id |-> "assess_1", title |-> "Assessment",
     questions |-> [type |-> "list", items |-> <<Bank[1], Bank[2]>>]]

GenerationReplies ==
    {[kind |-> "not_json", fenced |-> FALSE, body |-> <<>>],
     [kind |-> "object", fenced |-> FALSE, body |-> [title |-> "Assessment"]],
     [kind |-> "object", fenced |-> FALSE,
      body |-> [GENERATED_ASSESSMENT EXCEPT !.questions = [type |-> "string", items |-> <<>>]]]}
    \cup {[kind |-> "object", fenced |-> b, body |-> GENERATED_ASSESSMENT] : b \in BOOLEAN}

\* generate_questions without the check of the required keys and of the
\* list of questions
generate_questions_unchecked(ut, llm, now) ==
    LET raw == call_llm_with_retry(llm)
        questions == IF "questions" \in DOMAIN raw.value.body
                     THEN raw.value.body.questions.items ELSE <<>>
    IN  IF ~raw.ok THEN Raise("RetryError")
        ELSE IF parse_reply(ut, raw.value) # "object"
             THEN Raise("ValueError: Invalid JSON from LLM")
        ELSE Return([assessment_id   |-> Get(raw.value.body, "assessment_id", None),
                     title           |-> Get(raw.value.body, "title", None),
                     questions       |-> questions,
                     generated_at    |-> now,
                     total_questions |-> Len(questions),
                     schema_version  |-> "1.0"])

\* generate_questions of the evaluator serving `ut`: the parsed assessment
\* with its metadata, or the exception raised
generate_questions(ut, llm, now) ==
    LET raw == call_llm_with_retry(llm)
    IN  IF ~raw.ok THEN Raise("RetryError")
        ELSE IF parse_reply(ut, raw.value) # "object"
             THEN Raise("ValueError: Invalid JSON from LLM")
        ELSE IF ~({"assessment_id", "title", "questions"} \subseteq DOMAIN raw.value.body)
             THEN Raise("ValueError: Missing required keys in response")
        ELSE IF raw.value.body.questions.type # "list"
             THEN Raise("ValueError: Questions must be a list")
        ELSE Return([assessment_id   |-> raw.value.body.assessment_id,
                     title           |-> raw.value.body.title,
                     questions       |-> raw.value.body.questions.items,
                     generated_at    |-> now,
                     total_questions |-> Len(raw.value.body.questions.items),
                     schema_version  |-> "1.0"]
                    @@ IF ut = "mentor" THEN [assessment_type |-> "mentor"] ELSE <<>>)

assessments_of(ut) ==
    IF ut = "mentor" THEN "mentor_assessments" ELSE "psychometric_assessments"

\* the handler of a generate request
generate_psychometric_assessment(st, req, env, now) ==
    LET user_id       == IF req.user_id = Absent THEN None ELSE req.user_id
        num_questions == num_questions_of(req.num_questions)
        ut            == determine_user_type(st, req.roles, user_id, env.fault)
        gen           == generate_questions(ut.value, env.llm, now)
        error(e)      == [error |-> "Failed to generate assessment", details |-> e]
        record        == [user_id         |-> user_id,
                          user_type       |-> ut.value,
                          assessment_id   |-> gen.value.assessment_id,
                          assessment_type |-> Get(gen.value, "assessment_type", ut.value),
                          questions_data  |-> gen.value,
                          status          |-> "pending",
                          generated_at    |-> gen.value.generated_at]
        saved         == [st EXCEPT ![assessments_of(ut.value)] = Append(@, record)]
        ok_body       == [success         |-> TRUE,
                          assessment_id   |-> gen.value.assessment_id,
                          assessment_type |-> ut.value,
                          title           |-> gen.value.title,
                          total_questions |-> gen.value.total_questions,
                          questions       |-> gen.value.questions,
                          generated_at    |-> gen.value.generated_at]
    IN  IF ~ut.ok THEN Response(500, error(ut.error), st, 0, {})
        ELSE IF invalid_num_questions(num_questions)
             THEN Response(400, [error   |-> "Invalid number of questions",
                                 message |-> "num_questions must be between 5 and 50"],
                           st, 0, ut.log)
        ELSE IF ~gen.ok
             THEN Response(500, error(gen.error), st, 1, ut.log \cup {"generator failed"})
        ELSE IF user_id # None /\ env.fault = "connect"
             THEN Response(500, error("ConnectionFailure"), st, 1,
                           ut.log \cup {"connect failed"})
        ELSE IF user_id # None /\ env.fault = "insert_assessment"
             THEN Response(200, ok_body, st, 1, ut.log \cup {"insert_assessment failed"})
        ELSE Response(200, ok_body, IF user_id # None THEN saved ELSE st, 1, ut.log)

-----------------------------------------------------------------------------
(* UserProfileManager.create_profile_from_psychometric *)

\* s[:5] without the bound
First5_whole(s) == s

\* s[:5]
First5(s) == SubSeq(s, 1, IF Len(s) < 5 THEN Len(s) ELSE 5)

\* dimension_to_focus of _determine_focus_areas
DIMENSION_TO_FOCUS ==
    [d \in Range(ENTREPRENEUR_DIMENSIONS) |->
        CASE d = "leadership"             -> "Team & Leadership Evaluation"
          [] d = "risk_tolerance"         -> "Risk Assessment & Mitigation"
          [] d = "resilience"             -> "Sustainability & Long-term Viability"
          [] d = "innovation"             -> "Innovation & Differentiation"
          [] d = "decision_making"        -> "Business Model & Strategy"
          [] d = "emotional_intelligence" -> "Stakeholder Management"
          [] d = "persistence"            -> "Execution Capability"
          [] d = "strategic_thinking"     -> "Market Strategy & Positioning"
          [] d = "communication"          -> "Go-to-Market & Sales"
          [] d = "problem_solving"        -> "Problem-Solution Fit"]

\* dimension_scores.items(): the evaluator inserts the keys in the order of
\* its registry
items_of(dimension_scores) ==
    SelectSeq(ENTREPRENEUR_DIMENSIONS, LAMBDA d : d \in DOMAIN dimension_scores)

\* sorted(dimension_scores.items(), key=lambda x: x[1], reverse=True): the
\* sort is stable, so items of one score keep their order
RECURSIVE sorted_by_score(_, _)
sorted_by_score(items, dimension_scores) ==
    IF items = <<>> THEN <<>>
    ELSE LET first == CHOOSE i \in 1..Len(items) :
                         /\ \A j \in 1..Len(items) :
                               dimension_scores[items[j]] <= dimension_scores[items[i]]
                         /\ \A j \in 1..(i - 1) :
                               dimension_scores[items[j]] < dimension_scores[items[i]]
         IN  <<items[first]>>
             \o sorted_by_score(SubSeq(items, 1, first - 1)
                                \o SubSeq(items, first + 1, Len(items)),
                                dimension_scores)

\* s[:3]
First3(s) == SubSeq(s, 1, IF Len(s) < 3 THEN Len(s) ELSE 3)

\* [dimension_to_focus[d] for d in dims if d in dimension_to_focus]
focus_of(dims) ==
    LET known == SelectSeq(dims, LAMBDA d : d \in DOMAIN DIMENSION_TO_FOCUS)
    IN  [i \in 1..Len(known) |-> DIMENSION_TO_FOCUS[known[i]]]

\* _determine_focus_areas with a score of exactly 5 counted as weak
determine_focus_areas_inclusive(dimension_scores) ==
    LET items == items_of(dimension_scores)
        weak  == SelectSeq(items, LAMBDA d : dimension_scores[d] <= 500)
    IN  IF focus_of(weak) # <<>> THEN focus_of(weak)
        ELSE focus_of(First3(sorted_by_score(items, dimension_scores)))

\* _determine_focus_areas: scores are in hundredths
determine_focus_areas(dimension_scores) ==
    LET items == items_of(dimension_scores)
        weak  == SelectSeq(items, LAMBDA d : dimension_scores[d] < 500)
    IN  IF focus_of(weak) # <<>> THEN focus_of(weak)
        ELSE focus_of(First3(sorted_by_score(items, dimension_scores)))

\* _categorize_risk_tolerance with exclusive lower bounds
categorize_risk_tolerance_exclusive(risk_score) ==
    IF risk_score > 800 THEN "Very High"
    ELSE IF risk_score > 600 THEN "High"
    ELSE IF risk_score > 400 THEN "Medium"
    ELSE "Low"

\* _categorize_risk_tolerance: the score is in hundredths
categorize_risk_tolerance(risk_score) ==
    IF risk_score >= 800 THEN "Very High"
    ELSE IF risk_score >= 600 THEN "High"
    ELSE IF risk_score >= 400 THEN "Medium"
    ELSE "Low"

\* fields_to_check of _calculate_completeness
FIELDS_TO_CHECK ==
    << "dimension_scores", "entrepreneurial_fit", "strengths",
       "areas_for_development", "personality_profile", "detailed_insights",
       "recommendations" >>

\* value.strip() of a text is empty
blank(t) == t \in {"", " ", "   "}

\* the body of the loop of _calculate_completeness: the value is there and
\* is a list or a dict of len > 0 or a str with value.strip() non-empty.  Of
\* the fields checked, an evaluation carries personality_profile as a str and
\* the others as lists or dicts.
field_filled(evaluation_result, field) ==
    /\ field \in DOMAIN evaluation_result
    /\ IF field = "personality_profile"
       THEN ~blank(evaluation_result[field].text)
       ELSE evaluation_result[field] # <<>>

\* _calculate_completeness: round((filled_fields / total_fields) * 100, 1),
\* in tenths of a percent
calculate_completeness(evaluation_result) ==
    LET filled_fields == Len(SelectSeq(FIELDS_TO_CHECK,
                                 LAMBDA f : field_filled(evaluation_result, f)))
        total_fields  == Len(FIELDS_TO_CHECK)
    IN  RoundDiv(filled_fields * 1000, total_fields)

\* the profile built by _create_entrepreneur_profile before it is saved
entrepreneur_profile(user_id, evaluation_result, now) ==
    LET entrepreneurial_fit == Get(evaluation_result, "entrepreneurial_fit", <<>>)
        dimension_scores    == Get(evaluation_result, "dimension_scores", <<>>)
    IN  [user_id                    |-> user_id,
         profile_type               |-> "entrepreneur",
         user_name                  |-> Get(evaluation_result, "user_name", "Unknown"),
         created_at                 |-> now,
         last_updated               |-> now,
         psychometric_scores        |-> Get(evaluation_result, "dimension_scores", <<>>),
         overall_psychometric_score |-> Get(evaluation_result, "overall_score", 0),
         entrepreneurial_fit        |-> Get(entrepreneurial_fit, "overall_fit", "Medium"),
         fit_score                  |-> Get(entrepreneurial_fit, "fit_score", 50),
         ideal_role                 |-> Get(entrepreneurial_fit, "ideal_role", "Entrepreneur"),
         ideal_venture_type         |-> Get(entrepreneurial_fit, "ideal_venture_type", "Various"),
         top_strengths              |-> First5(Get(evaluation_result, "strengths", <<>>)),
         development_areas          |-> First5(Get(evaluation_result, "areas_for_development", <<>>)),
         personality_profile        |-> Get(evaluation_result, "personality_profile", ""),
         validation_focus_areas     |-> determine_focus_areas(dimension_scores),
         risk_tolerance_level       |->
             categorize_risk_tolerance(Get(dimension_scores, "risk_tolerance", 500)),
         profile_completeness       |-> calculate_completeness(evaluation_result),
         detailed_insights          |-> Get(evaluation_result, "detailed_insights", <<>>),
         recommendations            |-> Get(evaluation_result, "recommendations", <<>>),
         profile_version            |-> "1.0",
         evaluation_id              |-> Get(evaluation_result, "evaluation_id", None),
         assessment_date            |-> Get(evaluation_result, "evaluated_at", None)]

\* the profile built by _create_mentor_profile before it is saved
mentor_profile(user_id, evaluation_result, now) ==
    LET mentoring_fit        == Get(evaluation_result, "mentoring_fit", <<>>)
        ideal_mentee_profile == Get(evaluation_result, "ideal_mentee_profile", <<>>)
    IN  [user_id              |-> user_id,
         profile_type         |-> "mentor",
         user_name            |-> Get(evaluation_result, "user_name", "Unknown"),
         created_at           |-> now,
         last_updated         |-> now,
         psychometric_scores  |-> Get(evaluation_result, "dimension_scores", <<>>),
         overall_mentor_score |-> Get(evaluation_result, "overall_mentor_score", 0),
         mentoring_fit        |-> Get(mentoring_fit, "overall_fit", "Moderate"),
         fit_score            |-> Get(mentoring_fit, "fit_score", 50),
         mentoring_readiness  |-> Get(mentoring_fit, "mentoring_readiness", "Needs Development"),
         teaching_style       |-> Get(evaluation_result, "teaching_style", ""),
         mentoring_capacity   |-> Get(evaluation_result, "mentoring_capacity", ""),
         expertise_domains    |-> Get(evaluation_result, "expertise_domains", <<>>),
         mentor_profile_summary |-> Get(evaluation_result, "mentor_profile_summary", ""),
         ideal_mentee_profile |-> ideal_mentee_profile,
         mentee_experience_level |-> Get(ideal_mentee_profile, "experience_level", ""),
         mentee_personality_fit  |-> Get(ideal_mentee_profile, "personality_fit", ""),
         challenge_areas      |-> Get(ideal_mentee_profile, "challenge_areas", ""),
         industry_fit         |-> Get(ideal_mentee_profile, "industry_fit", ""),
         detailed_insights    |-> Get(evaluation_result, "detailed_insights", <<>>),
         recommendations      |-> Get(evaluation_result, "recommendations", <<>>),
         top_strengths        |-> First5(Get(evaluation_result, "mentor_strengths",
                                             Get(evaluation_result, "strengths", <<>>))),
         development_areas    |-> First5(Get(evaluation_result, "development_areas", <<>>)),
         profile_completeness |-> calculate_completeness(evaluation_result),
         profile_version      |-> "1.0",
         evaluation_id        |-> Get(evaluation_result, "evaluation_id", None),
         assessment_date      |-> Get(evaluation_result, "evaluated_at", None),
         mentoring_history    |-> <<>>]

profiles_of(ut) == IF ut = "mentor" THEN "mentor_profiles" ELSE "entrepreneur_profiles"

history_of(ut) == IF ut = "mentor" THEN "mentoring_history" ELSE "validation_history"

\* the save block whose update replaces the stored profile by the new one
save_profile_replacing(st, ut, profile, fault) ==
    LET docs  == st[profiles_of(ut)]
        hits  == {i \in 1..Len(docs) : docs[i].user_id = profile.user_id}
        first == CHOOSE i \in hits : \A j \in hits : i <= j
        fresh == (history_of(ut) :> <<>>) @@ profile
    IN  IF fault # "none" THEN [ok |-> TRUE, profile |-> fresh, store |-> st, log |-> {}]
        ELSE IF hits # {}
        THEN [ok |-> TRUE, profile |-> fresh,
              store |-> [st EXCEPT ![profiles_of(ut)][first] = fresh @@ @], log |-> {}]
        ELSE [ok |-> TRUE, profile |-> fresh,
              store |-> [st EXCEPT ![profiles_of(ut)] = Append(@, fresh)], log |-> {}]

\* the save block letting what raises in it reach the caller
save_profile_raising(st, ut, profile, fault) ==
    [ok |-> fault \notin {"find_profile", "write_profile"}, profile |-> profile,
     store |-> st, log |-> {fault \o " failed"}]

\* the "Save to database" block of _create_entrepreneur_profile and
\* _create_mentor_profile: find_one, then update_one with $set, or
\* insert_one; what raises there is logged and the profile returned all the
\* same
save_profile(st, ut, profile, fault) ==
    LET docs     == st[profiles_of(ut)]
        hits     == {i \in 1..Len(docs) : docs[i].user_id = profile.user_id}
        first    == CHOOSE i \in hits : \A j \in hits : i <= j
        kept     == [created_at |-> docs[first].created_at]
                    @@ (history_of(ut) :> Get(docs[first], history_of(ut), <<>>))
        updated  == kept @@ profile
        inserted == (history_of(ut) :> <<>>) @@ profile
                    @@ [_id |-> ObjectIdOf(st.next_id)]
    IN  IF fault = "find_profile"
        THEN [ok |-> TRUE, profile |-> profile, store |-> st,
              log |-> {"find_profile failed"}]
        ELSE IF hits # {}
        THEN IF fault = "write_profile"
             THEN [ok |-> TRUE, profile |-> updated, store |-> st,
                   log |-> {"write_profile failed"}]
             ELSE [ok |-> TRUE, profile |-> updated,
                   store   |-> [st EXCEPT ![profiles_of(ut)][first] = updated @@ @],
                   log     |-> {}]
        ELSE IF fault = "write_profile"
             THEN [ok |-> TRUE, profile |-> (history_of(ut) :> <<>>) @@ profile,
                   store |-> st, log |-> {"write_profile failed"}]
             ELSE [ok |-> TRUE, profile |-> inserted,
                   store   |-> [st EXCEPT ![profiles_of(ut)] = Append(@, inserted),
                                          !.next_id = @ + 1],
                   log     |-> {}]

create_profile_from_psychometric(st, user_id, evaluation_result, ut, fault, now) ==
    save_profile(st, ut,
                 IF ut = "mentor" THEN mentor_profile(user_id, evaluation_result, now)
                 ELSE entrepreneur_profile(user_id, evaluation_result, now),
                 fault)

-----------------------------------------------------------------------------
(* POST /api/psychometric/evaluate *)

evaluations_of(ut) ==
    IF ut = "mentor" THEN "mentor_evaluations" ELSE "psychometric_evaluations"

\* update_fields of step 6.3
user_update_fields(ut, evaluation_result, now) ==
    IF ut = "mentor"
    THEN [isPsychometricAnalysisDone    |-> TRUE,
          mentorPsychometricScore       |-> overall_of(evaluation_result),
          mentorPsychometricCompletedAt |-> now,
          mentorTeachingStyle           |-> Get(evaluation_result, "teaching_style", ""),
          mentorExpertiseDomains        |-> Get(evaluation_result, "expertise_domains", <<>>),
          mentorCapacity                |-> Get(evaluation_result, "mentoring_capacity", "")]
    ELSE [isPsychometricAnalysisDone |-> TRUE,
          psychometricScore          |-> overall_of(evaluation_result),
          psychometricCompletedAt    |-> now]

\* step 6 with the assessment and the user updated before the evaluation is
\* inserted: when the insert fails the two updates stay
save_evaluation_status_first(st, ut, user_id, user_name, assessment_id, evaluation_result, answers, fault, now) ==
    LET evaluation_id == ObjectIdOf(st.next_id)
        evaluation_record ==
            [_id                |-> evaluation_id,
             user_id            |-> user_id,
             user_name          |-> user_name,
             user_type          |-> ut,
             assessment_id      |-> assessment_id,
             evaluation_result  |-> evaluation_result,
             questions_answered |-> Len(answers),
             overall_score      |-> overall_of(evaluation_result),
             completion_rate    |-> evaluation_result.completion_rate,
             evaluated_at       |-> evaluation_result.evaluated_at]
        is_assessment(doc) == doc.assessment_id = assessment_id /\ doc.user_id = user_id
        complete(doc) == [status |-> "completed", evaluation_id |-> evaluation_id] @@ doc
        st1 == [st EXCEPT ![assessments_of(ut)] = update_one(@, is_assessment, complete)]
        st2 == IF user_id \in DOMAIN st1.users
               THEN [st1 EXCEPT !.users[user_id] =
                        user_update_fields(ut, evaluation_result, now) @@ @]
               ELSE st1
        st3 == [st2 EXCEPT ![evaluations_of(ut)] = Append(@, evaluation_record),
                           !.next_id = @ + 1]
    IN  IF fault = "insert_evaluation"
        THEN [evaluation_id |-> None, store |-> st2, log |-> {"insert_evaluation failed"}]
        ELSE [evaluation_id |-> evaluation_id, store |-> st3, log |-> {}]

\* step 6 with the evaluation stored under (user_id, assessment_id): a second
\* evaluation of the assessment by the user takes the place of the first
save_evaluation_replacing(st, ut, user_id, user_name, assessment_id, evaluation_result, answers, fault, now) ==
    LET evaluation_id == ObjectIdOf(st.next_id)
        evaluation_record ==
            [_id                |-> evaluation_id,
             user_id            |-> user_id,
             user_name          |-> user_name,
             user_type          |-> ut,
             assessment_id      |-> assessment_id,
             evaluation_result  |-> evaluation_result,
             questions_answered |-> Len(answers),
             overall_score      |-> overall_of(evaluation_result),
             completion_rate    |-> evaluation_result.completion_rate,
             evaluated_at       |-> evaluation_result.evaluated_at]
        others == SelectSeq(st[evaluations_of(ut)],
                            LAMBDA doc : ~(doc.user_id = user_id
                                           /\ doc.assessment_id = assessment_id))
    IN  IF fault = "insert_evaluation"
        THEN [evaluation_id |-> None, store |-> st, log |-> {"insert_evaluation failed"}]
        ELSE [evaluation_id |-> evaluation_id,
              store |-> [st EXCEPT ![evaluations_of(ut)] = Append(others, evaluation_record),
                                   !.next_id = @ + 1],
              log |-> {}]

\* step 6 of the handler, inside its try block: insert the evaluation, mark
\* the assessment completed, update the user.  The first operation that
\* raises ends the block; what was written before it stays.
save_evaluation(st, ut, user_id, user_name, assessment_id, evaluation_result, answers, fault, now) ==
    LET evaluation_id == ObjectIdOf(st.next_id)
        evaluation_record ==
            [_id                |-> evaluation_id,
             user_id            |-> user_id,
             user_name          |-> user_name,
             user_type          |-> ut,
             assessment_id      |-> assessment_id,
             evaluation_result  |-> evaluation_result,
             questions_answered |-> Len(answers),
             overall_score      |-> overall_of(evaluation_result),
             completion_rate    |-> evaluation_result.completion_rate,
             evaluated_at       |-> evaluation_result.evaluated_at]
        is_assessment(doc) == doc.assessment_id = assessment_id /\ doc.user_id = user_id
        complete(doc) == [status |-> "completed", evaluation_id |-> evaluation_id] @@ doc
        st1 == [st EXCEPT ![evaluations_of(ut)] = Append(@, evaluation_record),
                          !.next_id = @ + 1]
        st2 == [st1 EXCEPT ![assessments_of(ut)] = update_one(@, is_assessment, complete)]
        st3 == IF user_id \in DOMAIN st2.users
               THEN [st2 EXCEPT !.users[user_id] =
                        user_update_fields(ut, evaluation_result, now) @@ @]
               ELSE st2
    IN  IF fault = "insert_evaluation"
        THEN [evaluation_id |-> None, store |-> st, log |-> {"insert_evaluation failed"}]
        ELSE IF fault = "update_assessment"
        THEN [evaluation_id |-> evaluation_id, store |-> st1,
              log |-> {"update_assessment failed"}]
        ELSE IF ~valid_object_id(user_id)
        THEN [evaluation_id |-> evaluation_id, store |-> st2, log |-> {"InvalidId"}]
        ELSE IF fault = "update_user"
        THEN [evaluation_id |-> evaluation_id, store |-> st2,
              log |-> {"update_user failed"}]
        ELSE [evaluation_id |-> evaluation_id, store |-> st3, log |-> {}]

\* the handler of an evaluate request
evaluate_psychometric_responses(st, req, env, now) ==
    LET data          == req.data
        user_id       == IF data.user_id = Absent THEN "anonymous" ELSE data.user_id
        ut            == determine_user_type(st, data.roles, user_id, env.fault)
        user_type_    == ut.value
        missing       == {f \in {"questions_data", "responses"} : ~data.has[f]}
        user_name     == "Anonymous User"
        assessment_id == Get(data.questions_data, "assessment_id", "unknown")
        evaluation    == evaluate_responses(user_type_, data.questions_data,
                                            data.responses, env.llm, now)
        prompts       == evaluation_prompts(data.responses)
        evaluation_result ==
            evaluation.value @@ [user_id |-> user_id, user_name |-> user_name,
                                 user_type |-> user_type_]
        saved         == save_evaluation(st, user_type_, user_id, user_name,
                                         assessment_id, evaluation_result,
                                         data.responses, env.fault, now)
        profiled      == create_profile_from_psychometric(
                            saved.store, user_id, evaluation_result, user_type_,
                            env.fault, now)
        failed_llm    == IF analysis_failed(user_type_, env.llm)
                         THEN {"analysis failed"} ELSE {}
        error(e)      == [error |-> "Failed to evaluate responses", details |-> e]
    IN  IF ~req.has_body
        THEN Response(400, [error |-> "Invalid request",
                            message |-> "Request body is required"], st, 0, {})
        ELSE IF ~ut.ok THEN Response(500, error(ut.error), st, 0, {})
        ELSE IF missing # {}
        THEN Response(400, [error |-> "Missing required fields", missing |-> missing],
                      st, 0, ut.log)
        ELSE IF ~evaluation.ok
        THEN Response(500, error(evaluation.error), st, prompts, ut.log)
        ELSE IF env.fault = "connect"
        THEN Response(500, error("ConnectionFailure"), st, prompts,
                      ut.log \cup failed_llm \cup {"connect failed"})
        ELSE Response(200,
                      [success         |-> TRUE,
                       evaluation_id   |-> saved.evaluation_id,
                       user_type       |-> user_type_,
                       assessment_type |-> user_type_,
                       profile_created |-> profiled.ok,
                       evaluation      |-> evaluation_result],
                      profiled.store, prompts,
                      ut.log \cup failed_llm \cup saved.log \cup profiled.log)

-----------------------------------------------------------------------------
(* The server, handling one request after the other *)

\* the generate requests: every caller with the default number of questions,
\* every value of num_questions from the anonymous caller, and an
\* out-of-range number with a malformed role field
GenerateRequests ==
    {[caller |-> c, num_questions |-> [kind |-> "absent", n |-> 0]] : c \in Callers}
    \cup {[caller |-> Anonymous, num_questions |-> v] : v \in NumQuestionsValues}
    \cup {[caller |-> [user_id |-> Absent, roles |-> Roles(Number, Absent)],
           num_questions |-> [kind |-> "int", n |-> 51]]}

\* the assessment the evaluate requests carry
ApiAssessment == [assessment_id |-> "assess_1", questions |-> <<Bank[1], Bank[2]>>]

AllAnswered == <<[question_id |-> "q1", option_id |-> "A"],
                 [question_id |-> "q2", option_id |-> "A"]>>

\* one answer to a question of the assessment, one to a question it lacks
PartlyUnknown == <<[question_id |-> "q1", option_id |-> "B"],
                   [question_id |-> "q3", option_id |-> "A"]>>

Payload(has_questions, has_responses, resp) ==
    [has            |-> [questions_data |-> has_questions, responses |-> has_responses],
     questions_data |-> ApiAssessment,
     responses      |-> resp]

Body(caller, payload) ==
    [user_id |-> caller.user_id, roles |-> caller.roles] @@ payload

\* the evaluate requests: every caller with all questions answered; an empty
\* response set from an entrepreneur and a mentor; a partly unknown one; a
\* body without 'responses'; no body at all
EvaluateRequests ==
    {[has_body |-> TRUE, data |-> Body(c, Payload(TRUE, TRUE, AllAnswered))] :
        c \in Callers}
    \cup {[has_body |-> TRUE, data |-> Body(c, Payload(TRUE, TRUE, <<>>))] :
            c \in {k \in Callers : k.roles = Roles(Absent, Absent) /\ k.user_id # "u2"}}
    \cup {[has_body |-> TRUE, data |-> Body(Anonymous, Payload(TRUE, TRUE, PartlyUnknown))],
          [has_body |-> TRUE, data |-> Body(Anonymous, Payload(TRUE, FALSE, <<>>))],
          [has_body |-> FALSE, data |-> Body(Anonymous, Payload(FALSE, FALSE, <<>>))]}

\* the replies to the analysis prompt the server is run with: the full
\* analysis of either evaluator, unfenced, or text that is no JSON
ServerAnalysisReplies ==
    {reply \in AnalysisReplies("entrepreneur") \cup AnalysisReplies("mentor") :
        /\ ~reply.fenced
        /\ reply.kind # "not_object"
        /\ reply.body # PARTIAL_ANALYSIS}

\* the full object the prompt asks for, without fences
Plain(reply) ==
    /\ ~reply.fenced
    /\ reply.kind = "object"
    /\ reply.body \in {GENERATED_ASSESSMENT, ENTREPRENEUR_FULL_ANALYSIS,
                        MENTOR_FULL_ANALYSIS}

\* the language model during one request: it answers at once with one of
\* the replies, or raises on every attempt
ServerLLMs(replies) ==
    {llm \in LLMBehaviours(replies) :
        /\ llm.fails \in {0, MAX_ATTEMPTS}
        /\ llm.fails = MAX_ATTEMPTS => Plain(llm.reply)}

\* the language model answers at the first attempt with the object asked for
Working(llm) == llm.fails = 0 /\ Plain(llm.reply)

\* the environment of one request: a language model and a point at which
\* the database fails, with at most one failure in all
Environments(replies, faults) ==
    {env \in [llm : ServerLLMs(replies), fault : faults] :
        Working(env.llm) \/ env.fault = "none"}

\* the failure of the environment is one the handler ran into: a request
\* that ends before the failure is the request of the environment without it
Struck(env, r) ==
    /\ ~Working(env.llm) => r.prompts > 0
    /\ env.fault # "none" => (env.fault \o " failed") \in r.log

ApiInit ==
    /\ user_type = "entrepreneur"
    /\ questions_data = ApiAssessment
    /\ responses = <<>>
    /\ clock = 0
    /\ runs = <<>>
    /\ store = InitialStore
    /\ llm_calls = 0
    /\ http = NoHttp
    /\ pm = NoCalls
    /\ singletons = NoInstances

\* the server answers a request with the response `r` of its handler
Handle(endpoint, req, env, r) ==
    /\ http' = [n |-> http.n + 1, endpoint |-> endpoint, request |-> req,
                env |-> env, status |-> r.status, body |-> r.body, log |-> r.log]
    /\ store' = r.store
    /\ llm_calls' = llm_calls + r.prompts
    /\ clock' = clock + 1
    /\ UNCHANGED <<singletons, user_type, questions_data, responses, runs, pm>>

GenerateRequest(req, env) ==
    LET r == generate_psychometric_assessment(
                 store, [user_id |-> req.caller.user_id, roles |-> req.caller.roles,
                         num_questions |-> req.num_questions], env, clock)
    IN  /\ http.n < MaxRequests
        /\ Struck(env, r)
        /\ Handle("generate", req, env, r)

\* the language model is prompted for the analysis of the evaluator that
\* serves the request
EvaluateRequest(req, env) ==
    LET r  == evaluate_psychometric_responses(store, req, env, clock)
        ut == determine_user_type(store, req.data.roles,
                                  IF req.data.user_id = Absent THEN "anonymous"
                                  ELSE req.data.user_id,
                                  env.fault)
    IN  /\ http.n < MaxRequests
        /\ env.llm.reply \in AnalysisReplies(IF ut.ok THEN ut.value ELSE "entrepreneur")
        /\ Struck(env, r)
        /\ Handle("evaluate", req, env, r)

ApiNext ==
    \/ \E req \in GenerateRequests :
           \E env \in Environments(GenerationReplies,
                                   {"none", "connect", "find_user", "insert_assessment"}) :
               GenerateRequest(req, env)
    \/ \E req \in EvaluateRequests :
           \E env \in Environments(ServerAnalysisReplies,
                                   Faults \ {"insert_assessment"}) :
               EvaluateRequest(req, env)

ApiSpec == ApiInit /\ [][ApiNext]_vars

-----------------------------------------------------------------------------
(* Vocabulary of the properties of the server *)

\* the step is the server answering a request sent to `endpoint`
Answers(endpoint) == http'.n = http.n + 1 /\ http'.endpoint = endpoint

\* 4xx
ClientError(status) == status \in 400..499

\* the step sends no prompt to the language model and writes nothing
NothingDone == llm_calls' = llm_calls /\ store' = store

\* a body that carries questions_data and an empty 'responses'
EmptyResponseSet(req) ==
    /\ req.has_body
    /\ req.data.has.questions_data
    /\ req.data.has.responses
    /\ req.data.responses = <<>>

\* a num_questions that is present and is not an integer of 5..50
NotAnAllowedCount(v) ==
    /\ v.kind # "absent"
    /\ ~(v.kind = "int" /\ v.n \in 5..50)

\* every role field of the body is absent or a string
WellFormedRoles(roles) == \A f \in DOMAIN roles : roles[f] # Number

-----------------------------------------------------------------------------
(* C8 *)

\* C8: an evaluate request with an empty response set is answered with a
\* client error, without a prompt to the analyzer and without a write to the
\* database.  The server answers it with status 500.
C8_EmptyResponseSetIsClientError ==
    [][(Answers("evaluate") /\ EmptyResponseSet(http'.request))
          => (ClientError(http'.status) /\ NothingDone)]_vars

\* C8, what the server does: the empty response set is answered with an
\* error status, a reason, no prompt and no write
C8_EmptyResponseSetIsRefused ==
    [][(Answers("evaluate") /\ EmptyResponseSet(http'.request))
          => /\ http'.status \in {400, 500}
             /\ "error" \in DOMAIN http'.body
             /\ NothingDone]_vars

\* C8: an empty response set was answered, by the entrepreneur evaluator
\* raising ValueError
C8_Witness ==
    /\ http.n > 0
    /\ http.endpoint = "evaluate"
    /\ EmptyResponseSet(http.request)
    /\ WellFormedRoles(http.request.data.roles)
    /\ http.status = 500
    /\ http.body.details = "ValueError: No responses provided for evaluation"

-----------------------------------------------------------------------------
(* C9 *)

\* C9: a generate request whose num_questions is not an integer of 5..50 is
\* answered with a client error, the generator is not prompted and no
\* assessment is stored.  With a number in a role field the server answers
\* it with status 500.
C9_InvalidCountIsClientError ==
    [][(Answers("generate") /\ NotAnAllowedCount(http'.request.num_questions))
          => (ClientError(http'.status) /\ NothingDone)]_vars

\* C9, what the server does: with well-formed role fields the count is
\* rejected with status 400; in every case nothing is prompted or stored
C9_InvalidCountIsRefused ==
    [][(Answers("generate") /\ NotAnAllowedCount(http'.request.num_questions))
          => /\ WellFormedRoles(http'.request.caller.roles) => http'.status = 400
             /\ http'.status \in {400, 500}
             /\ NothingDone]_vars

\* C9: an out-of-range count came with a number as user_type and was
\* answered with status 500
C9_Witness ==
    /\ http.n > 0
    /\ http.endpoint = "generate"
    /\ NotAnAllowedCount(http.request.num_questions)
    /\ ~WellFormedRoles(http.request.caller.roles)
    /\ http.status = 500

-----------------------------------------------------------------------------
(* C11 *)

\* the reply is text that parses to an object with assessment_id, title and
\* a list of questions
SchemaValid(reply) ==
    /\ reply.kind = "object"
    /\ {"assessment_id", "title", "questions"} \subseteq DOMAIN reply.body
    /\ reply.body.questions.type = "list"

\* the generator raised on every attempt or answered with output that is
\* not schema-valid (the environment of a request holds such a language
\* model only when the request prompted it)
GeneratorFailed(h) ==
    /\ h.endpoint = "generate"
    /\ h.env.llm.fails >= MAX_ATTEMPTS \/ ~SchemaValid(h.env.llm.reply)

\* C11: when the question generator raises or answers with output that is
\* not schema-valid, the generate request ends in an error response that
\* carries no questions, and no assessment record is stored
C11_GeneratorFailureIsFatal ==
    [][(Answers("generate") /\ GeneratorFailed(http'))
          => /\ http'.status >= 400
             /\ "error" \in DOMAIN http'.body
             /\ DOMAIN http'.body \cap {"questions", "assessment_id", "title"} = {}
             /\ store' = store]_vars

\* C11: a caller with a user id was answered 500 after the generator
\* returned an object whose questions are not a list
C11_Witness ==
    /\ http.n > 0
    /\ GeneratorFailed(http)
    /\ http.request.caller.user_id # Absent
    /\ http.env.llm.fails = 0
    /\ http.env.llm.reply.kind = "object"
    /\ "questions" \in DOMAIN http.env.llm.reply.body
    /\ http.status = 500

\* C11: the same after a reply that lacks required keys
C11_WitnessMissingKeys ==
    /\ http.n > 0
    /\ GeneratorFailed(http)
    /\ http.env.llm.reply.kind = "object"
    /\ "questions" \notin DOMAIN http.env.llm.reply.body
    /\ http.status = 500

-----------------------------------------------------------------------------
(* C12 *)

\* the writes of an evaluate request
WriteFaults ==
    {"insert_evaluation", "update_assessment", "update_user", "write_profile"}

\* the step answers an evaluate request during which a write failed
WriteFailed == Answers("evaluate") /\ http'.env.fault \in WriteFaults

\* the response to the same request when no write fails
Unfailed(h) ==
    evaluate_psychometric_responses(store, h.request,
                                    [h.env EXCEPT !.fault = "none"], clock)

\* the profile create_profile_from_psychometric returns for the evaluation
\* of the response `h`, the database failing at `fault`
ProfileReturned(h, fault) ==
    create_profile_from_psychometric(store, h.body.evaluation.user_id,
                                     h.body.evaluation, h.body.user_type,
                                     fault, clock)

\* C12: when a write fails during an evaluate request (the insert of the
\* evaluation, the update of the assessment or of the user, the insert or
\* update of the profile), the request is answered with success and with the
\* evaluation it would carry without the failure, and the profile manager
\* returns the profile it would return without the failure
C12_WriteFailureStillReturnsResults ==
    [][WriteFailed
          => /\ http'.status = 200
             /\ http'.body.success
             /\ Unfailed(http').status = 200
             /\ http'.body.evaluation = Unfailed(http').body.evaluation
             /\ http'.body.profile_created
             /\ ProfileReturned(http', http'.env.fault).ok
             /\ LET got  == ProfileReturned(http', http'.env.fault).profile
                    want == ProfileReturned(http', "none").profile
                IN  \A k \in DOMAIN want \ {"_id"} :
                        k \in DOMAIN got /\ got[k] = want[k]]_vars

\* C12: the insert of the evaluation failed, the request was answered with
\* the evaluation and without an evaluation id, and no evaluation is stored
C12_Witness ==
    /\ http.n > 0
    /\ http.endpoint = "evaluate"
    /\ http.env.fault = "insert_evaluation"
    /\ http.status = 200
    /\ http.body.evaluation_id = None
    /\ http.body.evaluation.questions_answered = 2
    /\ store.psychometric_evaluations = <<>>
    /\ store.mentor_evaluations = <<>>

\* C12: the update of an existing profile failed and the request succeeded
C12_WitnessProfile ==
    /\ http.n = 2
    /\ http.endpoint = "evaluate"
    /\ http.env.fault = "write_profile"
    /\ http.status = 200
    /\ Len(store.entrepreneur_profiles) + Len(store.mentor_profiles) = 1

-----------------------------------------------------------------------------
(* UserProfileManager: get_profile, add_validation_to_history,
   get_personalized_validation_context *)

\* get_profile: the first document of the user in the collection of the
\* type; None when there is none or when the lookup raises
get_profile(st, user_id, ut, fault) ==
    LET docs  == st[profiles_of(ut)]
        hits  == {i \in 1..Len(docs) : docs[i].user_id = user_id}
        first == CHOOSE i \in hits : \A j \in hits : i <= j
    IN  IF fault \in {"connect", "find_profile"} \/ hits = {} THEN [found |-> FALSE]
        ELSE [found |-> TRUE, profile |-> docs[first]]

\* validation_entry of add_validation_to_history
validation_entry(idea_name, validation_result, report_id, now) ==
    [idea_name          |-> idea_name,
     report_id          |-> report_id,
     validated_at       |-> now,
     overall_score      |-> Get(validation_result, "overall_score", 0),
     validation_outcome |-> Get(validation_result, "validation_outcome", "N/A")]

\* add_validation_to_history: update_one with $push on validation_history
\* and $set on last_updated, on the first entrepreneur profile of the user;
\* no document is created when there is none, and what raises is logged
add_validation_to_history(st, user_id, idea_name, validation_result, report_id, fault, now) ==
    LET entry == validation_entry(idea_name, validation_result, report_id, now)
        is_user(doc) == doc.user_id = user_id
        push(doc) ==
            [validation_history |-> Append(Get(doc, "validation_history", <<>>), entry),
             last_updated       |-> now] @@ doc
    IN  IF fault = "write_profile" THEN st
        ELSE [st EXCEPT !.entrepreneur_profiles = update_one(@, is_user, push)]

\* s[:3] in the place of s[-3:]
Last3_oldest(s) == SubSeq(s, 1, IF Len(s) > 3 THEN 3 ELSE Len(s))

\* s[-3:]
Last3(s) == SubSeq(s, IF Len(s) > 3 THEN Len(s) - 2 ELSE 1, Len(s))

\* a value that is a str, which has no get()
is_str(value) == "text" \in DOMAIN value /\ "number" \in DOMAIN value

\* get_personalized_validation_context: the sentinel when get_profile
\* returns nothing, the except branch when building the context raises,
\* which profile.get('detailed_insights', {}).get(...) does on a
\* detailed_insights that is no mapping
get_personalized_validation_context(st, user_id, fault) ==
    LET got      == get_profile(st, user_id, "entrepreneur", fault)
        profile  == got.profile
        history  == Get(profile, "validation_history", <<>>)
        insights == Get(profile, "detailed_insights", <<>>)
    IN  IF ~got.found
        THEN [has_profile |-> FALSE,
              message |-> "No psychometric profile available. Standard validation will be performed."]
        ELSE IF is_str(insights)
        THEN [has_profile |-> FALSE,
              error |-> "'str' object has no attribute 'get'"]
        ELSE [has_profile             |-> TRUE,
              user_name               |-> Get(profile, "user_name", "User"),
              entrepreneurial_fit     |-> Get(profile, "entrepreneurial_fit", None),
              fit_score               |-> Get(profile, "fit_score", 50),
              ideal_role              |-> Get(profile, "ideal_role", None),
              strengths               |-> Get(profile, "top_strengths", <<>>),
              weak_areas              |-> Get(profile, "development_areas", <<>>),
              focus_areas             |-> Get(profile, "validation_focus_areas", <<>>),
              risk_tolerance          |-> Get(profile, "risk_tolerance_level", "Medium"),
              psychometric_scores     |-> Get(profile, "psychometric_scores", <<>>),
              personality_summary     |-> Get(profile, "personality_profile", ""),
              leadership_style        |-> Get(insights, "leadership_style", ""),
              decision_making_pattern |-> Get(insights, "decision_making_pattern", ""),
              validation_count        |-> Len(history),
              previous_ideas          |-> [i \in 1..Len(Last3(history)) |->
                                              Get(Last3(history)[i], "idea_name", None)]]

-----------------------------------------------------------------------------
(* The profile manager, called sequentially *)

\* the user whose profile is synthesized
ProfileUsers == {"u1"}

\* the evaluation the handler hands to the profile manager: the result of
\* evaluate_responses with the user fields added
evaluation_for(ut, user_id, qd, resp, llm, now) ==
    evaluate_responses(ut, qd, resp, llm, now).value
    @@ [user_id |-> user_id, user_name |-> "Anonymous User", user_type |-> ut]

ProfileInit ==
    /\ user_type = "entrepreneur"
    /\ questions_data = ApiAssessment
    /\ responses = AllAnswered
    /\ clock = 0
    /\ runs = <<>>
    /\ store = InitialStore
    /\ llm_calls = 0
    /\ http = NoHttp
    /\ pm = NoCalls
    /\ singletons = NoInstances

\* the language model that answers the analysis prompt of `ut` in full
FullAnalysisLLM(ut) ==
    [fails |-> 0,
     reply |-> [kind |-> "object", fenced |-> FALSE,
                body |-> IF ut = "mentor" THEN MENTOR_FULL_ANALYSIS
                         ELSE ENTREPRENEUR_FULL_ANALYSIS]]

\* create_profile_from_psychometric for an evaluation made now
Synthesize(user_id, ut, fault) ==
    LET evaluation == evaluation_for(ut, user_id, questions_data, responses,
                                     FullAnalysisLLM(ut), clock)
        r == create_profile_from_psychometric(store, user_id, evaluation, ut,
                                              fault, clock)
    IN  /\ pm.n < MaxCalls
        /\ store' = r.store
        /\ pm' = [pm EXCEPT !.n = @ + 1,
                            !.last = [op |-> "synthesize", user_id |-> user_id,
                                      user_type |-> ut, fault |-> fault,
                                      ok |-> r.ok, result |-> r.profile],
                            !.written = IF r.store # store THEN @ + 1 ELSE @]
        /\ clock' = clock + 1
        /\ UNCHANGED <<singletons, user_type, questions_data, responses, runs, llm_calls, http>>

\* add_validation_to_history for the idea validated now
AppendHistory(user_id, fault) ==
    LET idea_name == "idea " \o ToString(pm.n + 1)
        report_id == "report " \o ToString(pm.n + 1)
        result    == [overall_score |-> 7, validation_outcome |-> "GO"]
        st        == add_validation_to_history(store, user_id, idea_name, result,
                                               report_id, fault, clock)
    IN  /\ pm.n < MaxCalls
        /\ store' = st
        /\ pm' = [pm EXCEPT !.n = @ + 1,
                            !.last = [op |-> "append", user_id |-> user_id,
                                      fault |-> fault, idea_name |-> idea_name],
                            !.appended = IF st # store THEN Append(@, idea_name) ELSE @]
        /\ clock' = clock + 1
        /\ UNCHANGED <<singletons, user_type, questions_data, responses, runs, llm_calls, http>>

\* get_personalized_validation_context
ProjectContext(user_id, fault) ==
    /\ pm.n < MaxCalls
    /\ pm' = [pm EXCEPT !.n = @ + 1,
                        !.last = [op |-> "context", user_id |-> user_id,
                                  fault |-> fault,
                                  result |-> get_personalized_validation_context(
                                                 store, user_id, fault)]]
    /\ UNCHANGED <<singletons, user_type, questions_data, responses, runs, llm_calls, http,
                   store, clock>>

ProfileNext ==
    \E user_id \in ProfileUsers :
        \/ \E ut \in UserTypes, fault \in {"none", "find_profile", "write_profile"} :
               Synthesize(user_id, ut, fault)
        \/ \E fault \in {"none", "write_profile"} : AppendHistory(user_id, fault)
        \/ \E fault \in {"none", "find_profile"} : ProjectContext(user_id, fault)

ProfileSpec == ProfileInit /\ [][ProfileNext]_vars

-----------------------------------------------------------------------------
(* C13 *)

\* a is the beginning of b
IsPrefix(a, b) == Len(a) <= Len(b) /\ SubSeq(b, 1, Len(a)) = a

\* the stored profiles of a type
Stored(st, ut) == st[IF ut = "mentor" THEN "mentor_profiles" ELSE "entrepreneur_profiles"]

\* the history of a stored profile
HistoryOf(doc, ut) ==
    doc[IF ut = "mentor" THEN "mentoring_history" ELSE "validation_history"]

\* C13: over a sequential run of syntheses and history appends, a stored
\* profile keeps the created_at of its first creation and its history only
\* grows at the end; a profile is created with created_at = now and an empty
\* history; a user has at most one profile of a type
C13_CreatedAtAndHistoryArePreserved ==
    [][\A ut \in UserTypes :
          /\ Len(Stored(store', ut)) >= Len(Stored(store, ut))
          /\ \A i \in 1..Len(Stored(store', ut)) :
                LET after == Stored(store', ut)[i]
                IN  IF i <= Len(Stored(store, ut))
                    THEN LET before == Stored(store, ut)[i]
                         IN  /\ after.user_id = before.user_id
                             /\ after.created_at = before.created_at
                             /\ IsPrefix(HistoryOf(before, ut), HistoryOf(after, ut))
                    ELSE /\ after.created_at = clock
                         /\ HistoryOf(after, ut) = <<>>
                         /\ \A j \in 1..Len(Stored(store, ut)) :
                               Stored(store, ut)[j].user_id # after.user_id]_vars

\* C13: three syntheses were written and two entries appended in between;
\* the profile was created at 0 and last synthesized at 4
C13_Witness ==
    /\ pm.written >= 3
    /\ Len(store.entrepreneur_profiles) = 1
    /\ store.entrepreneur_profiles[1].created_at = 0
    /\ store.entrepreneur_profiles[1].assessment_date = 4
    /\ Len(store.entrepreneur_profiles[1].validation_history) = 2
    /\ store.entrepreneur_profiles[1].validation_history[1].validated_at = 1

-----------------------------------------------------------------------------
(* The profile manager, called from concurrent requests *)

\* _create_entrepreneur_profile up to and including find_one: the profile
\* built from the evaluation and the document found, if any
find_existing_profile(st, ut, profile) ==
    LET docs  == st[profiles_of(ut)]
        hits  == {i \in 1..Len(docs) : docs[i].user_id = profile.user_id}
        first == CHOOSE i \in hits : \A j \in hits : i <= j
    IN  IF hits = {} THEN [found |-> FALSE]
        ELSE [found |-> TRUE, existing_profile |-> docs[first]]

\* _create_entrepreneur_profile after find_one: with a document found,
\* created_at and the history are taken from it and update_one sets every
\* field of the profile on the first document of the user; without,
\* insert_one stores the profile with an empty history
write_profile(st, ut, profile, existing) ==
    LET docs     == st[profiles_of(ut)]
        hits     == {i \in 1..Len(docs) : docs[i].user_id = profile.user_id}
        first    == CHOOSE i \in hits : \A j \in hits : i <= j
        kept     == [created_at |-> existing.existing_profile.created_at]
                    @@ (history_of(ut) :>
                          Get(existing.existing_profile, history_of(ut), <<>>))
        updated  == kept @@ profile
        inserted == (history_of(ut) :> <<>>) @@ profile
                    @@ [_id |-> ObjectIdOf(st.next_id)]
    IN  IF existing.found
        THEN IF hits = {} THEN st
             ELSE [st EXCEPT ![profiles_of(ut)][first] = updated @@ @]
        ELSE [st EXCEPT ![profiles_of(ut)] = Append(@, inserted), !.next_id = @ + 1]

RaceInit == ProfileInit

\* a request thread builds the entrepreneur profile of the user and runs
\* find_one
BeginSynthesis(user_id) ==
    LET evaluation == evaluation_for("entrepreneur", user_id, questions_data,
                                     responses, FullAnalysisLLM("entrepreneur"), clock)
        profile    == entrepreneur_profile(user_id, evaluation, clock)
    IN  /\ pm.n < MaxCalls
        /\ Len(pm.pending) < 2
        /\ pm' = [pm EXCEPT !.n = @ + 1,
                            !.last = [op |-> "find", user_id |-> user_id],
                            !.pending = Append(@,
                                [profile  |-> profile,
                                 existing |-> find_existing_profile(
                                                  store, "entrepreneur", profile)])]
        /\ clock' = clock + 1
        /\ UNCHANGED <<singletons, user_type, questions_data, responses, runs, llm_calls, http,
                       store>>

\* the thread at position i of those in flight runs its update_one or
\* insert_one and returns
FinishSynthesis(i) ==
    /\ i \in 1..Len(pm.pending)
    /\ store' = write_profile(store, "entrepreneur", pm.pending[i].profile,
                              pm.pending[i].existing)
    /\ pm' = [pm EXCEPT !.last = [op |-> "write",
                                  user_id |-> pm.pending[i].profile.user_id],
                        !.written = @ + 1,
                        !.pending = SubSeq(@, 1, i - 1) \o SubSeq(@, i + 1, Len(@))]
    /\ UNCHANGED <<singletons, user_type, questions_data, responses, runs, llm_calls, http, clock>>

RaceNext ==
    \/ \E user_id \in ProfileUsers : BeginSynthesis(user_id)
    \/ \E i \in 1..2 : FinishSynthesis(i)
    \/ \E user_id \in ProfileUsers : AppendHistory(user_id, "none")

RaceSpec == RaceInit /\ [][RaceNext]_vars

-----------------------------------------------------------------------------
(* C14 *)

\* no call of the profile manager is in flight
Quiescent == pm.pending = <<>>

\* the idea names in the stored validation_history of the user's profile
StoredIdeas(user_id) ==
    UNION {{doc.validation_history[k].idea_name :
               k \in 1..Len(doc.validation_history)} :
           doc \in {d \in Range(store.entrepreneur_profiles) : d.user_id = user_id}}

\* C14: under any interleaving of syntheses with add_validation_to_history
\* for the same user, once all calls have returned every entry whose append
\* completed is in the stored validation_history.  A synthesis that ran
\* find_one before an append and update_one after it writes the history it
\* found and drops the entry.
C14_AppendsSurviveConcurrentSynthesis ==
    Quiescent => \A user_id \in ProfileUsers :
                    Range(pm.appended) \subseteq StoredIdeas(user_id)

\* C14, the part that holds: the stored created_at never changes
C14_CreatedAtSurvivesConcurrentSynthesis ==
    [][\A i \in 1..Len(store.entrepreneur_profiles) :
          /\ i <= Len(store'.entrepreneur_profiles)
          /\ store'.entrepreneur_profiles[i].created_at
                = store.entrepreneur_profiles[i].created_at]_vars

\* C14: an append completed while a synthesis of the same user was between
\* its find_one and its update_one, and all calls have returned
C14_Witness ==
    /\ Quiescent
    /\ pm.last.op = "write"
    /\ Len(store.entrepreneur_profiles) = 1
    /\ Len(pm.appended) = 1
    /\ store.entrepreneur_profiles[1].validation_history = <<>>
    /\ store.entrepreneur_profiles[1].created_at = 0

-----------------------------------------------------------------------------
(* Synthesis of one profile from an evaluation, and its projection *)

MaxEntries == 7     \* entries of the strengths and development lists

\* the evaluation of a fully answered assessment with a full analysis
BaseEvaluation(ut) ==
    evaluation_for(ut, "u1", ApiAssessment, AllAnswered, FullAnalysisLLM(ut), 0)

\* the keys under which the evaluator of `ut` returns the qualitative fields
strengths_key(ut) == IF ut = "mentor" THEN "mentor_strengths" ELSE "strengths"

areas_key(ut) == IF ut = "mentor" THEN "development_areas" ELSE "areas_for_development"

summary_key(ut) == IF ut = "mentor" THEN "mentor_profile_summary" ELSE "personality_profile"

fit_key(ut) == IF ut = "mentor" THEN "mentoring_fit" ELSE "entrepreneurial_fit"

Entries(prefix, n) == [i \in 1..n |-> prefix \o ToString(i)]

\* evaluations whose analysis lists up to MaxEntries strengths and areas
ListEvaluations(ut) ==
    {(strengths_key(ut) :> Entries("strength ", n))
     @@ (areas_key(ut) :> Entries("area ", m))
     @@ BaseEvaluation(ut) : n \in 0..MaxEntries, m \in 0..MaxEntries}

RiskLevels == {0, 399, 400, 499, 500, 599, 600, 799, 800, 1000}

\* dimension averages of the entrepreneur evaluator, in hundredths: around
\* the thresholds for risk_tolerance, weak, exactly 5 or strong for three
\* other dimensions, one value for the rest
ScoreVectors ==
    {[d \in Range(ENTREPRENEUR_DIMENSIONS) |->
         CASE d = "risk_tolerance"  -> r
           [] d = "leadership"      -> a
           [] d = "persistence"     -> b
           [] d = "problem_solving" -> c
           [] OTHER                 -> rest] :
     r \in RiskLevels, a \in {499, 500, 800}, b \in {499, 500, 800},
     c \in {499, 500, 800}, rest \in {500, 700}}

ScoreEvaluations ==
    {[dimension_scores |-> v] @@ BaseEvaluation("entrepreneur") : v \in ScoreVectors}

\* the seven fields of the completeness checklist, under the keys of the
\* evaluator of `ut`
ChecklistOf(ut) ==
    << "dimension_scores", fit_key(ut), strengths_key(ut), areas_key(ut),
       summary_key(ut), "detailed_insights", "recommendations" >>

\* the evaluation with the fields at the positions `empty` of the checklist
\* empty: an empty list or mapping and an empty text, or, when `gone`, no key
\* at all and a text of spaces
Emptied(ut, empty, gone) ==
    LET keys   == {ChecklistOf(ut)[i] : i \in empty}
        base   == BaseEvaluation(ut)
        kept   == IF gone THEN (DOMAIN base \ keys) \cup ({summary_key(ut)} \cap keys)
                  ELSE DOMAIN base
    IN  [k \in kept |->
            IF k \notin keys THEN base[k]
            ELSE IF k = summary_key(ut)
                 THEN Text(IF gone THEN "   " ELSE "", 0)
                 ELSE <<>>]

ChecklistEvaluations(ut) ==
    {Emptied(ut, empty, gone) : empty \in SUBSET (1..7), gone \in BOOLEAN}

\* an evaluation whose analysis gave detailed_insights as a text: the
\* evaluators take analysis.get("detailed_insights", {}) as it comes
InsightEvaluations(ut) ==
    {[detailed_insights |-> Text("llm insights", 0)] @@ BaseEvaluation(ut)}

SynthesisInit == ProfileInit

\* create_profile_from_psychometric for an evaluation of the user
SynthesizeFrom(user_id, ut, evaluation_result) ==
    LET r == create_profile_from_psychometric(store, user_id, evaluation_result, ut,
                                              "none", clock)
    IN  /\ pm.n = 0
        /\ store' = r.store
        /\ pm' = [pm EXCEPT !.n = @ + 1,
                            !.last = [op |-> "synthesize", user_id |-> user_id,
                                      user_type |-> ut,
                                      evaluation |-> evaluation_result,
                                      ok |-> r.ok, result |-> r.profile],
                            !.written = IF r.store # store THEN @ + 1 ELSE @]
        /\ clock' = clock + 1
        /\ UNCHANGED <<singletons, user_type, questions_data, responses, runs, llm_calls, http>>

\* get_personalized_validation_context for the user, profiled or not
ProjectSynthesized(user_id, fault) ==
    /\ pm.last.op # "context"
    /\ pm' = [pm EXCEPT !.n = @ + 1,
                        !.last = [op |-> "context", user_id |-> user_id,
                                  fault |-> fault,
                                  user_type |-> Get(pm.last, "user_type", None),
                                  evaluation |-> Get(pm.last, "evaluation", <<>>),
                                  result |-> get_personalized_validation_context(
                                                 store, user_id, fault)]]
    /\ UNCHANGED <<singletons, user_type, questions_data, responses, runs, llm_calls, http,
                   store, clock>>

SynthesisNext ==
    \E user_id \in ProfileUsers :
        \/ \E ut \in UserTypes :
              \E evaluation_result \in ListEvaluations(ut) \cup ChecklistEvaluations(ut)
                                           \cup InsightEvaluations(ut) :
                 SynthesizeFrom(user_id, ut, evaluation_result)
        \/ \E evaluation_result \in ScoreEvaluations :
              SynthesizeFrom(user_id, "entrepreneur", evaluation_result)
        \/ \E fault \in {"none", "connect", "find_profile"} :
              ProjectSynthesized(user_id, fault)

SynthesisSpec == SynthesisInit /\ [][SynthesisNext]_vars

\* a profile has just been synthesized for a user of type `ut`
Synthesized(ut) == pm.last.op = "synthesize" /\ pm.last.user_type = ut

\* the profile of the user as the store holds it
StoredProfile(user_id, ut) ==
    LET docs == store[profiles_of(ut)]
    IN  docs[CHOOSE i \in 1..Len(docs) : docs[i].user_id = user_id]

-----------------------------------------------------------------------------
(* C15 *)

\* `short` is the first five entries of `whole`, or all of them if fewer
IsFirstFiveOf(short, whole) ==
    /\ Len(short) = (IF Len(whole) < 5 THEN Len(whole) ELSE 5)
    /\ \A i \in 1..Len(short) : short[i] = whole[i]

\* C15: the profile synthesis returns and the profile it stores hold, for
\* both user types, the first five strengths and the first five development
\* areas of the evaluation in their order, and the validation context
\* returns the stored lists as they are.
C15_ListsAreTheFirstFive ==
    /\ \A ut \in UserTypes :
          Synthesized(ut) =>
             LET evaluation == pm.last.evaluation
                 stored     == StoredProfile(pm.last.user_id, ut)
             IN  /\ IsFirstFiveOf(pm.last.result.top_strengths,
                                  Get(evaluation, strengths_key(ut), <<>>))
                 /\ IsFirstFiveOf(pm.last.result.development_areas,
                                  Get(evaluation, areas_key(ut), <<>>))
                 /\ stored.top_strengths = pm.last.result.top_strengths
                 /\ stored.development_areas = pm.last.result.development_areas
    /\ (pm.last.op = "context" /\ pm.last.result.has_profile) =>
          LET stored == StoredProfile(pm.last.user_id, "entrepreneur")
          IN  /\ pm.last.result.strengths = stored.top_strengths
              /\ pm.last.result.weak_areas = stored.development_areas

\* C15: the context of an entrepreneur whose evaluation listed seven
\* strengths and six development areas
C15_Witness ==
    /\ pm.last.op = "context"
    /\ pm.last.result.has_profile
    /\ pm.last.user_type = "entrepreneur"
    /\ Len(Get(pm.last.evaluation, "strengths", <<>>)) = 7
    /\ Len(Get(pm.last.evaluation, "areas_for_development", <<>>)) = 6
    /\ pm.last.result.strengths = Entries("strength ", 5)
    /\ pm.last.result.weak_areas = Entries("area ", 5)

\* C15: a mentor profile from seven strengths and three development areas
C15_WitnessMentor ==
    /\ Synthesized("mentor")
    /\ Len(Get(pm.last.evaluation, "mentor_strengths", <<>>)) = 7
    /\ pm.last.result.top_strengths = Entries("strength ", 5)
    /\ pm.last.result.development_areas = Entries("area ", 3)

-----------------------------------------------------------------------------
(* C16 *)

\* the field of the evaluation is there and is not empty
NonEmpty(ut, evaluation, field) ==
    /\ field \in DOMAIN evaluation
    /\ IF field = summary_key(ut) THEN ~blank(evaluation[field].text)
       ELSE evaluation[field] # <<>>

\* the percentage of the seven checklist fields that are non-empty, in tenths
PercentNonEmpty(ut, evaluation) ==
    RoundDiv(1000 * Cardinality({i \in 1..7 :
                                    NonEmpty(ut, evaluation, ChecklistOf(ut)[i])}), 7)

\* C16: for both user types profile_completeness is the percentage, to one
\* decimal, of the seven checklist fields of the evaluation that are
\* non-empty.  _calculate_completeness looks the fields up under the keys of
\* the entrepreneur evaluation, four of which a mentor evaluation never has.
C16_CompletenessIsThePercentageFilled ==
    \A ut \in UserTypes :
       Synthesized(ut) =>
          pm.last.result.profile_completeness = PercentNonEmpty(ut, pm.last.evaluation)

\* C16, the part that holds: the completeness of an entrepreneur profile
C16_EntrepreneurCompletenessIsThePercentageFilled ==
    Synthesized("entrepreneur") =>
       pm.last.result.profile_completeness
          = PercentNonEmpty("entrepreneur", pm.last.evaluation)

\* C16: a mentor evaluation with all seven fields filled
C16_Witness ==
    /\ Synthesized("mentor")
    /\ pm.last.evaluation = BaseEvaluation("mentor")
    /\ pm.last.result.profile_completeness = 429

\* C16: an entrepreneur evaluation with all seven fields filled, and one
\* with three of them empty
C16_WitnessEntrepreneur ==
    /\ Synthesized("entrepreneur")
    /\ \/ /\ pm.last.evaluation = BaseEvaluation("entrepreneur")
          /\ pm.last.result.profile_completeness = 1000
       \/ /\ pm.last.evaluation = Emptied("entrepreneur", {2, 5, 7}, TRUE)
          /\ pm.last.result.profile_completeness = 571

-----------------------------------------------------------------------------
(* C17 *)

\* the position of a dimension in the entrepreneur registry
Registered(d) == CHOOSE i \in 1..Len(ENTREPRENEUR_DIMENSIONS) : ENTREPRENEUR_DIMENSIONS[i] = d

\* the dimensions that come before `d` in a ranking by score, highest first,
\* equal scores by registration order
Ahead(d, scores) ==
    {e \in DOMAIN scores :
        \/ scores[e] > scores[d]
        \/ scores[e] = scores[d] /\ Registered(e) < Registered(d)}

\* C17: the focus areas of an entrepreneur profile are those of all
\* dimensions scoring below 5, in registration order, when there is one, and
\* otherwise those of the three highest-scoring dimensions (of all, if fewer
\* than three are scored), equal scores in registration order.
C17_FocusAreasAreWeakOrElseTopThree ==
    Synthesized("entrepreneur") =>
       LET scores == Get(pm.last.evaluation, "dimension_scores", <<>>)
           focus  == pm.last.result.validation_focus_areas
           scored == Cardinality(DOMAIN scores)
           weak   == SelectSeq(ENTREPRENEUR_DIMENSIONS,
                               LAMBDA d : d \in DOMAIN scores /\ scores[d] < 500)
       IN  IF weak # <<>>
           THEN /\ Len(focus) = Len(weak)
                /\ \A i \in 1..Len(weak) : focus[i] = DIMENSION_TO_FOCUS[weak[i]]
           ELSE /\ Len(focus) = (IF scored < 3 THEN scored ELSE 3)
                /\ \A d \in DOMAIN scores :
                      Cardinality(Ahead(d, scores)) < 3 =>
                         focus[Cardinality(Ahead(d, scores)) + 1] = DIMENSION_TO_FOCUS[d]

\* C17: no dimension is weak, leadership and risk_tolerance are at exactly 5
\* with seven others, and problem_solving, registered last, is highest
C17_Witness ==
    /\ Synthesized("entrepreneur")
    /\ Get(pm.last.evaluation, "dimension_scores", <<>>)
          = [d \in Range(ENTREPRENEUR_DIMENSIONS) |->
                IF d = "problem_solving" THEN 800 ELSE 500]
    /\ pm.last.result.validation_focus_areas
          = << "Problem-Solution Fit", "Team & Leadership Evaluation",
               "Risk Assessment & Mitigation" >>

\* C17: two dimensions are weak and others are at exactly 5 or above
C17_WitnessWeak ==
    /\ Synthesized("entrepreneur")
    /\ Get(Get(pm.last.evaluation, "dimension_scores", <<>>), "leadership", 0) = 500
    /\ Get(Get(pm.last.evaluation, "dimension_scores", <<>>), "problem_solving", 0) = 800
    /\ pm.last.result.validation_focus_areas
          = << "Risk Assessment & Mitigation", "Execution Capability" >>

-----------------------------------------------------------------------------
(* C18 *)

\* the categories from lowest to highest
CategoryRank(category) ==
    CASE category = "Low"       -> 1
      [] category = "Medium"    -> 2
      [] category = "High"      -> 3
      [] category = "Very High" -> 4

\* C18: the risk tolerance level of a profile follows from the
\* risk_tolerance score with inclusive lower bounds 8, 6 and 4, and never
\* falls as the score rises.
C18_RiskCategoryHasInclusiveLowerBounds ==
    /\ (Synthesized("entrepreneur")
        /\ "risk_tolerance" \in DOMAIN Get(pm.last.evaluation, "dimension_scores", <<>>)) =>
          LET score == pm.last.evaluation.dimension_scores.risk_tolerance
              level == pm.last.result.risk_tolerance_level
          IN  /\ score >= 800 => level = "Very High"
              /\ (600 <= score /\ score < 800) => level = "High"
              /\ (400 <= score /\ score < 600) => level = "Medium"
              /\ score < 400 => level = "Low"
    /\ \A low \in RiskLevels, high \in RiskLevels :
          low <= high => CategoryRank(categorize_risk_tolerance(low))
                            <= CategoryRank(categorize_risk_tolerance(high))

\* C18: a profile whose risk_tolerance score is exactly 6
C18_Witness ==
    /\ Synthesized("entrepreneur")
    /\ Get(Get(pm.last.evaluation, "dimension_scores", <<>>), "risk_tolerance", 0) = 600
    /\ pm.last.result.risk_tolerance_level = "High"

-----------------------------------------------------------------------------
(* C19 *)

\* the validation context has just been projected from a stored profile
Projected == pm.last.op = "context" /\ pm.last.result.has_profile

\* C19: called one after the other, the context of a user with a profile
\* counts in validation_count every history entry an append has stored, and
\* its previous_ideas are the idea names of the last three of them (of all,
\* if fewer), in the order of the appends.
C19_PreviousIdeasAreTheLastThree ==
    Projected =>
       LET history == StoredProfile(pm.last.user_id, "entrepreneur").validation_history
           n       == Len(history)
           shown   == IF n < 3 THEN n ELSE 3
           ideas   == pm.last.result.previous_ideas
       IN  /\ [i \in 1..n |-> history[i].idea_name] = pm.appended
           /\ pm.last.result.validation_count = n
           /\ Len(ideas) = shown
           /\ \A i \in 1..shown : ideas[i] = pm.appended[n - shown + i]

\* C19: the context after a synthesis and four appends
C19_Witness ==
    /\ Projected
    /\ pm.last.result.validation_count = 4
    /\ pm.last.result.previous_ideas = <<"idea 3", "idea 4", "idea 5">>
    /\ pm.appended = <<"idea 2", "idea 3", "idea 4", "idea 5">>

-----------------------------------------------------------------------------
(* C20 *)

\* the lookup of the entrepreneur profile of the user found one
ProfileFound(st, user_id, fault) ==
    /\ fault = "none"
    /\ \E doc \in Range(st.entrepreneur_profiles) : doc.user_id = user_id

\* the result is the sentinel: no profile, and no error
IsSentinel(result) == ~result.has_profile /\ "error" \notin DOMAIN result

\* C20: the validation context of a user for whom no entrepreneur profile is
\* found, the store being unavailable or the lookup failing included, is the
\* sentinel with has_profile false and no error; has_profile is true exactly
\* when a profile was found; the projection changes nothing stored.  Building
\* the context of a profile whose detailed_insights is no mapping raises, and
\* the answer is has_profile false with the error although the profile was
\* found.
C20_HasProfileExactlyWhenFound ==
    [][(pm'.n # pm.n /\ pm'.last.op = "context") =>
          LET found == ProfileFound(store, pm'.last.user_id, pm'.last.fault)
          IN  /\ ~found => IsSentinel(pm'.last.result)
              /\ pm'.last.result.has_profile <=> found
              /\ store' = store]_vars

\* C20, the part that holds: without a profile found the answer is the
\* sentinel, has_profile is never true without one, and nothing stored
\* changes
C20_NoProfileGivesTheSentinel ==
    [][(pm'.n # pm.n /\ pm'.last.op = "context") =>
          LET found == ProfileFound(store, pm'.last.user_id, pm'.last.fault)
          IN  /\ ~found => IsSentinel(pm'.last.result)
              /\ pm'.last.result.has_profile => found
              /\ store' = store]_vars

\* C20: the context of a user whose stored profile has a text as
\* detailed_insights
C20_Witness ==
    /\ pm.last.op = "context"
    /\ pm.last.fault = "none"
    /\ ProfileFound(store, pm.last.user_id, "none")
    /\ ~pm.last.result.has_profile
    /\ "error" \in DOMAIN pm.last.result

\* C20: the context of a user with a mentor profile only, and of a user
\* whose profile could not be looked up
C20_WitnessSentinel ==
    /\ pm.last.op = "context"
    /\ IsSentinel(pm.last.result)
    /\ \/ pm.last.user_type = "mentor" /\ pm.last.fault = "none"
       \/ pm.last.user_type = "entrepreneur" /\ pm.last.fault = "connect"

-----------------------------------------------------------------------------
(* C21 *)

\* the evaluation records of both collections, as a pair
Evaluations(st) == <<st.psychometric_evaluations, st.mentor_evaluations>>

\* the number of evaluation records stored
EvaluationCount(st) == Len(st.psychometric_evaluations) + Len(st.mentor_evaluations)

\* C21: an evaluate request leaves every evaluation record stored before it
\* as it was and in its place, inserts at most one record, and inserts
\* exactly one when it succeeds with a database that works throughout;
\* no other request touches the evaluation records
C21_EvaluationsAreAppendOnly ==
    [][/\ \A i \in 1..2 : IsPrefix(Evaluations(store)[i], Evaluations(store')[i])
       /\ EvaluationCount(store') <= EvaluationCount(store) + 1
       /\ ~Answers("evaluate") => Evaluations(store') = Evaluations(store)
       /\ (Answers("evaluate") /\ http'.status = 200 /\ http'.env.fault = "none")
             => EvaluationCount(store') = EvaluationCount(store) + 1]_vars

\* C21: the same user has had the same assessment evaluated twice, and both
\* evaluations are stored, the first as it was
C21_Witness ==
    /\ http.n = 2
    /\ http.endpoint = "evaluate"
    /\ http.status = 200
    /\ Len(store.mentor_evaluations) = 2
    /\ store.mentor_evaluations[1].user_id = "u1"
    /\ store.mentor_evaluations[2].user_id = "u1"
    /\ store.mentor_evaluations[1].assessment_id = store.mentor_evaluations[2].assessment_id
    /\ store.mentor_evaluations[1].evaluated_at = 0
    /\ store.mentor_evaluations[2].evaluated_at = 1

-----------------------------------------------------------------------------
(* C22 *)

\* the profile documents stored for a user in the collection of a type
ProfilesOf(user_id, ut) ==
    {i \in 1..Len(store[profiles_of(ut)]) : store[profiles_of(ut)][i].user_id = user_id}

\* C22: whatever the interleaving of the syntheses of one user, the store
\* holds at most one profile document of the user for a profile type.  Two
\* first syntheses that both run find_one before either runs insert_one
\* insert a document each.
C22_AtMostOneProfilePerUser ==
    \A user_id \in ProfileUsers, ut \in UserTypes :
        Cardinality(ProfilesOf(user_id, ut)) <= 1

\* C22: two syntheses were in flight for a user without a profile, both have
\* returned, and two profile documents of the user are stored
C22_Witness ==
    /\ Quiescent
    /\ pm.written = 2
    /\ Cardinality(ProfilesOf("u1", "entrepreneur")) = 2

-----------------------------------------------------------------------------
(* C23 *)

\* C23: an evaluate request answered with an error status, 4xx or 5xx, has
\* written nothing: the database is as it was before the request
C23_ErrorResponsePersistsNothing ==
    [][(Answers("evaluate") /\ http'.status >= 400) => store' = store]_vars

\* C23: after a first evaluation was stored, a second request was evaluated
\* by the analyzer, could not reach the database and was answered with 500
C23_Witness ==
    /\ http.n = 2
    /\ http.endpoint = "evaluate"
    /\ http.status = 500
    /\ http.env.fault = "connect"
    /\ llm_calls = 2
    /\ EvaluationCount(store) = 1

\* C23: a request without responses was answered with 400
C23_WitnessClientError ==
    /\ http.n > 0
    /\ http.endpoint = "evaluate"
    /\ http.status = 400
    /\ "missing" \in DOMAIN http.body

-----------------------------------------------------------------------------
(* C24 *)

\* every evaluation record stored
StoredEvaluations == Range(store.psychometric_evaluations) \cup Range(store.mentor_evaluations)

\* C24: the questions_answered stored with an evaluation record is the
\* questions_answered of the evaluation in it, the number of responses that
\* named a question and an option of the assessment.  The record is written
\* with len(responses), which counts the skipped responses as well.
C24_StoredQuestionsAnsweredIsTheEvaluations ==
    \A record \in StoredEvaluations :
        record.questions_answered = record.evaluation_result.questions_answered

\* C24: a record of two responses, one of them to a question the assessment
\* does not have
C24_Witness ==
    \E record \in StoredEvaluations :
        /\ record.evaluation_result.questions_answered = 1
        /\ record.evaluation_result.total_questions = 2
        /\ record.questions_answered = 2

-----------------------------------------------------------------------------
(* C25 *)

\* the role fields of the last request, whichever the endpoint
RolesOf(h) == IF h.endpoint = "generate" THEN h.request.caller.roles ELSE h.request.data.roles

\* the user of the last request
UserOf(h) == IF h.endpoint = "generate" THEN h.request.caller.user_id ELSE h.request.data.user_id

\* the evaluator the request was routed to, as its response tells
RouteOf(h) == IF h.endpoint = "generate" THEN h.body.assessment_type ELSE h.body.user_type

\* the roles the request names in its role fields
RolesNamed(roles) ==
    {StripLower(roles[f]) : f \in {g \in DOMAIN roles : roles[g] \notin {Absent, Number, ""}}}

\* the database holds a mentor role for the user
MentorInDatabase(st, user_id) ==
    /\ user_id \in DOMAIN st.users
    /\ StripLower(st.users[user_id].role) \in MENTOR_ROLES

\* C25: a request answered with success was routed to 'mentor' or
\* 'entrepreneur'; one that names a role in user_type, user_role or role is
\* routed by that role, without the database; one that names none is routed
\* to 'entrepreneur' unless the database holds a mentor role for its user.
\* A request that names "entrepreneur" for a user who is a mentor in the
\* database is routed to 'mentor'.
C25_ExplicitRoleDecidesTheRoute ==
    (http.n > 0 /\ http.status = 200 /\ WellFormedRoles(RolesOf(http))) =>
       LET named == RolesNamed(RolesOf(http))
           route == RouteOf(http)
       IN  /\ route \in UserTypes
           /\ named # {} =>
                 route = (IF named \cap MENTOR_ROLES # {} THEN "mentor" ELSE "entrepreneur")
           /\ (named = {} /\ ~MentorInDatabase(store, UserOf(http))) =>
                 route = "entrepreneur"

\* C25, the part that holds: the route is one of the two, a mentor role in
\* the request gives 'mentor', and without a mentor role in the request or in
\* the database the route is 'entrepreneur'
C25_RouteWithoutExplicitEntrepreneur ==
    (http.n > 0 /\ http.status = 200 /\ WellFormedRoles(RolesOf(http))) =>
       LET named == RolesNamed(RolesOf(http))
           route == RouteOf(http)
       IN  /\ route \in UserTypes
           /\ named \cap MENTOR_ROLES # {} => route = "mentor"
           /\ ~MentorInDatabase(store, UserOf(http)) /\ named \cap MENTOR_ROLES = {}
                 => route = "entrepreneur"

\* C25: a request with user_type "Entrepreneur" from the user who is a mentor
\* in the database was routed to 'mentor'
C25_Witness ==
    /\ http.n > 0
    /\ http.status = 200
    /\ UserOf(http) = "u1"
    /\ RolesOf(http).user_type = "Entrepreneur"
    /\ http.env.fault = "none"
    /\ RouteOf(http) = "mentor"

-----------------------------------------------------------------------------
(* C26 *)

\* every assessment document stored
AssessmentsOf(st) == <<st.psychometric_assessments, st.mentor_assessments>>

\* the evaluation records the step inserted
Inserted ==
    {record \in Range(store'.psychometric_evaluations) \cup Range(store'.mentor_evaluations) :
        record \notin StoredEvaluations}

\* C26: an evaluate request changes an assessment only by setting it to
\* "completed" with the id of the evaluation record the request inserted;
\* when the request inserted no evaluation record, the assessments and the
\* users are as they were before it
C26_CompletedOnlyAfterTheEvaluationIsInserted ==
    [][Answers("evaluate") =>
          /\ \A c \in 1..2 :
                /\ Len(AssessmentsOf(store')[c]) = Len(AssessmentsOf(store)[c])
                /\ \A i \in 1..Len(AssessmentsOf(store)[c]) :
                      LET before == AssessmentsOf(store)[c][i]
                          after  == AssessmentsOf(store')[c][i]
                      IN  after # before =>
                             /\ after.status = "completed"
                             /\ \E record \in Inserted :
                                   /\ record._id = after.evaluation_id
                                   /\ record.assessment_id = after.assessment_id
                                   /\ record.user_id = after.user_id
          /\ Inserted = {} =>
                /\ AssessmentsOf(store') = AssessmentsOf(store)
                /\ store'.users = store.users]_vars

\* C26: the mentor generated an assessment and had it evaluated; it is
\* completed with the id of the one evaluation stored, and the user is marked
C26_Witness ==
    /\ http.n = 2
    /\ http.endpoint = "evaluate"
    /\ Len(store.mentor_assessments) = 1
    /\ Len(store.mentor_evaluations) = 1
    /\ store.mentor_assessments[1].status = "completed"
    /\ store.mentor_assessments[1].evaluation_id = store.mentor_evaluations[1]._id
    /\ store.users["u1"].isPsychometricAnalysisDone

\* C26: the insert of the evaluation failed for an assessment that is stored
\* as pending, and it is still pending
C26_WitnessInsertFailed ==
    /\ http.n = 2
    /\ http.endpoint = "evaluate"
    /\ http.env.fault = "insert_evaluation"
    /\ http.request.data.user_id = "u1"
    /\ Len(store.mentor_assessments) = 1
    /\ store.mentor_assessments[1].status = "pending"
    /\ store.mentor_evaluations = <<>>

-----------------------------------------------------------------------------
(* C27 *)

\* the last request was an evaluate request answered with success while the
\* database worked throughout
EvaluatedWithWorkingStore ==
    /\ http.n > 0
    /\ http.endpoint = "evaluate"
    /\ http.status = 200
    /\ http.env.fault = "none"

\* the profiles stored for the user and the type of the last response
ProfilesOfResponse ==
    {doc \in Range(store[profiles_of(http.body.user_type)]) :
        doc.user_id = http.body.evaluation.user_id}

\* C27: after a successful evaluate request with a working database, the
\* profile stored for the user carries the id of the evaluation record the
\* request inserted.  The handler never puts the id into the evaluation it
\* hands to the profile manager, and the profile carries None.
C27_ProfileReferencesItsEvaluation ==
    EvaluatedWithWorkingStore =>
       /\ ProfilesOfResponse # {}
       /\ \A doc \in ProfilesOfResponse : doc.evaluation_id = http.body.evaluation_id

\* C27, the part that holds: the profile is stored, and it carries the date
\* of the evaluation the request inserted
C27_ProfileCarriesTheDateOfItsEvaluation ==
    EvaluatedWithWorkingStore =>
       /\ ProfilesOfResponse # {}
       /\ \A doc \in ProfilesOfResponse :
             doc.assessment_date = http.body.evaluation.evaluated_at

\* C27: the evaluation was stored under an id and the profile carries None
C27_Witness ==
    /\ EvaluatedWithWorkingStore
    /\ http.body.evaluation_id = "id1"
    /\ \E record \in StoredEvaluations : record._id = "id1"
    /\ \E doc \in ProfilesOfResponse : doc.evaluation_id = None

-----------------------------------------------------------------------------
(* C28 *)

\* the last request was an evaluate request answered with success
Evaluated == http.n > 0 /\ http.endpoint = "evaluate" /\ http.status = 200

\* a profile derived from the evaluation of the last response is stored for
\* its user and type
ProfileOfResponseStored ==
    \E doc \in ProfilesOfResponse :
        /\ doc.assessment_date = http.body.evaluation.evaluated_at
        /\ doc.psychometric_scores = http.body.evaluation.dimension_scores

\* C28: profile_created is true only if a profile derived from the
\* evaluation is in the store when the response is produced, and it is false
\* whenever the lookup or the write of the profile failed.  The profile
\* manager logs such a failure and returns the profile it built, and the
\* handler reports profile_created true.
C28_ProfileCreatedMeansStored ==
    Evaluated =>
       /\ http.body.profile_created => ProfileOfResponseStored
       /\ http.env.fault \in {"find_profile", "write_profile"} => ~http.body.profile_created

\* C28, the part that holds: with the database working throughout, the
\* profile is reported and is stored
C28_ProfileCreatedWithWorkingStore ==
    EvaluatedWithWorkingStore =>
       /\ http.body.profile_created
       /\ ProfileOfResponseStored

\* C28: the write of the profile failed, no profile of the user is stored,
\* and the response says profile_created
C28_Witness ==
    /\ Evaluated
    /\ http.env.fault = "write_profile"
    /\ http.body.profile_created
    /\ ProfilesOfResponse = {}

-----------------------------------------------------------------------------
(* The singletons, asked for by concurrent request threads *)

\* PsychometricEvaluatorSingleton, MentorEvaluatorSingleton and the module
\* variable of get_user_profile_manager
SingletonKinds == {"PsychometricEvaluator", "MentorEvaluator", "UserProfileManager"}

\* the n-th object constructed of a kind
InstanceOf(kind, n) == kind \o " #" \o ToString(n)

SingletonInit == ProfileInit

\* a request thread calls get_instance of a kind
CallGetInstance(kind) ==
    /\ Len(singletons.threads) < MaxThreads
    /\ singletons' = [singletons EXCEPT
                         !.threads = Append(@, [kind |-> kind, pc |-> "test"])]
    /\ UNCHANGED <<user_type, questions_data, responses, clock, runs, store,
                   llm_calls, http, pm>>

\* if cls._instance is None:
TestInstance(t) ==
    /\ t \in 1..Len(singletons.threads)
    /\ singletons.threads[t].pc = "test"
    /\ singletons' = [singletons EXCEPT
                         !.threads[t].pc =
                             IF singletons.instance[singletons.threads[t].kind] = None
                             THEN "construct" ELSE "return"]
    /\ UNCHANGED <<user_type, questions_data, responses, clock, runs, store,
                   llm_calls, http, pm>>

\* the right-hand side of cls._instance = PsychometricEvaluator(**kwargs):
\* the constructor runs, creating its client or its database connection
ConstructInstance(t) ==
    /\ t \in 1..Len(singletons.threads)
    /\ singletons.threads[t].pc = "construct"
    /\ LET kind == singletons.threads[t].kind
       IN  singletons' = [singletons EXCEPT
                             !.built[kind] = @ + 1,
                             !.threads[t] =
                                 [kind |-> kind, pc |-> "assign",
                                  made |-> InstanceOf(kind, singletons.built[kind] + 1)]]
    /\ UNCHANGED <<user_type, questions_data, responses, clock, runs, store,
                   llm_calls, http, pm>>

\* the assignment to cls._instance
AssignInstance(t) ==
    /\ t \in 1..Len(singletons.threads)
    /\ singletons.threads[t].pc = "assign"
    /\ singletons' = [singletons EXCEPT
                         !.instance[singletons.threads[t].kind] = singletons.threads[t].made,
                         !.threads[t].pc = "return"]
    /\ UNCHANGED <<user_type, questions_data, responses, clock, runs, store,
                   llm_calls, http, pm>>

\* return cls._instance: the attribute is read again
ReturnInstance(t) ==
    /\ t \in 1..Len(singletons.threads)
    /\ singletons.threads[t].pc = "return"
    /\ singletons' = [singletons EXCEPT
                         !.threads[t] =
                             [kind |-> singletons.threads[t].kind, pc |-> "done",
                              got |-> singletons.instance[singletons.threads[t].kind]]]
    /\ UNCHANGED <<user_type, questions_data, responses, clock, runs, store,
                   llm_calls, http, pm>>

SingletonNext ==
    \/ \E kind \in SingletonKinds : CallGetInstance(kind)
    \/ \E t \in 1..MaxThreads :
          \/ TestInstance(t)
          \/ ConstructInstance(t)
          \/ AssignInstance(t)
          \/ ReturnInstance(t)

SingletonSpec == SingletonInit /\ [][SingletonNext]_vars

-----------------------------------------------------------------------------
(* C29 *)

\* the threads that have returned from get_instance of a kind
HasInstance(kind) ==
    {t \in 1..Len(singletons.threads) :
        singletons.threads[t].kind = kind /\ singletons.threads[t].pc = "done"}

C29_Witness ==
    /\ singletons.built["PsychometricEvaluator"] = 2
    /\ \E t \in HasInstance("PsychometricEvaluator"), u \in HasInstance("PsychometricEvaluator") :
          singletons.threads[t].got # singletons.threads[u].got

\* C29, the part that holds: a caller never receives None, and what it
\* receives was constructed
C29_CallersReceiveAnInstance ==
    \A kind \in SingletonKinds :
        \A t \in HasInstance(kind) :
            singletons.threads[t].got
               \in {InstanceOf(kind, n) : n \in 1..singletons.built[kind]}

-----------------------------------------------------------------------------
(* C30 *)

\* every option score of the assessment lies in 0..10
OptionScoresInRange ==
    \A j \in 1..Len(questions_data.questions) :
       \A k \in 1..Len(questions_data.questions[j].options) :
          \A e \in Range(questions_data.questions[j].options[k].score_profile) :
             e[2] \in 0..10

\* a score in hundredths lies in [0, 10]
OnScale(score) == 0 <= score /\ score <= 1000

\* C30: with every option score in 0..10, every dimension score and the
\* overall score of an evaluation lie in [0, 10], for both evaluators.  The
\* mentor evaluator multiplies the average of a dimension by its weight, up
\* to 1.3, and a dimension score can reach 13.
C30_ScoresAreOnTheScale ==
    OptionScoresInRange =>
       \A i \in Returned :
          /\ OnScale(overall_of(ResultOf(i)))
          /\ \A d \in DOMAIN ResultOf(i).dimension_scores :
                OnScale(ResultOf(i).dimension_scores[d])

\* C30, the part that holds: the overall score of both evaluators and the
\* dimension scores of the entrepreneur evaluator lie in [0, 10]
C30_OverallScoreIsOnTheScale ==
    OptionScoresInRange =>
       \A i \in Returned :
          /\ OnScale(overall_of(ResultOf(i)))
          /\ user_type = "entrepreneur" =>
                \A d \in DOMAIN ResultOf(i).dimension_scores :
                   OnScale(ResultOf(i).dimension_scores[d])

\* C30: a mentor evaluation in which the one answer scoring empathy gave it
\* 10, and the empathy score is 13
C30_Witness ==
    /\ user_type = "mentor"
    /\ OptionScoresInRange
    /\ \E i \in Returned : ResultOf(i).dimension_scores["empathy"] = 1300

====
